---------------------------- MODULE Spec2Model ----------------------------
(***************************************************************************)
(* LED animation playback engine: SceneManager (scene table, selections,   *)
(* pattern-transition state machine), the AnimationEngine frame loop and   *)
(* control handlers, and the OSCHandler dispatch to the worker pool.       *)
(*                                                                         *)
(* Conventions.                                                            *)
(*  - Python None is the integer None (-1) for ids and NoPalette for       *)
(*    palette names; Falsy/FalsyStr give Python's truth value.             *)
(*  - Scene.effects is keyed by str(effect id); the key is modelled by the *)
(*    integer id (str() of an int is injective).                           *)
(*  - time.time() is the variable now, in milliseconds.                    *)
(*  - A float in [0,1] is an exact fraction [num, den]; int(c * f) is the  *)
(*    truncating division (c * num) \div den.                              *)
(*  - Effect.time and EngineStats, which only feed logs, are left out; the *)
(*    scenes of the catalogue have segments with move_speed 0, for which   *)
(*    Segment.update_position returns at once.                             *)
(***************************************************************************)
EXTENDS Integers, Sequences, FiniteSets, TLC

(***************************************************************************)
(* Bounds of the model.                                                    *)
(***************************************************************************)
\* messages the OSC server receives in one behaviour (caps message_count)
MaxMessages == 2
\* the clock stops advancing at MaxTime milliseconds
MaxTime == 250
\* direct calls of SceneManager operations in a run
MaxCalls == 3
\* the frames the delivery specifications let the loop begin
MaxFrames == 2
\* the longest color and length list a segment is built from
MaxListLen == 2

(***************************************************************************)
(* Program constants.                                                      *)
(***************************************************************************)
None == -1
NoPalette == "None"
\* ThreadPoolExecutor(max_workers=4)
MaxWorkers == 4
\* Scene.get_led_output: range(225) when the current effect is missing
SceneFallbackLeds == 225
\* EngineSettings.ANIMATION.led_count as configured for the runs modelled
ConfigLedCount == 4
\* Scene.get_current_palette default: [[255, 255, 255]] * 6
WhitePalette == [i \in 1..6 |-> <<255, 255, 255>>]
Black == <<0, 0, 0>>

Falsy(x) == x = None \/ x = 0
FalsyStr(s) == s = NoPalette \/ s = ""

Min(a, b) == IF a < b THEN a ELSE b
Max(a, b) == IF a > b THEN a ELSE b
\* max(lo, min(hi, v))
\* a clamp that forgets its upper bound
Clamp_lower_only(lo, hi, v) == Max(lo, v)

Clamp(lo, hi, v) == Max(lo, Min(hi, v))

BlackFrame(n) == [i \in 1..n |-> Black]

\* Segment.current_position is kept in thousandths of a LED
PosUnit == 1000
\* int(a / b) for b > 0: Python's int() truncates toward zero
TruncDiv(a, b) == IF a >= 0 THEN a \div b ELSE -((-a) \div b)

RECURSIVE GCD(_, _)
GCD(a, b) == IF b = 0 THEN a ELSE GCD(b, a % b)
\* the float n / d (d > 0, n >= 0) as a fraction in lowest terms
Frac(n, d) == LET g == GCD(n, d) IN [num |-> n \div g, den |-> d \div g]

\* [int(color[0] * brightness), int(color[1] * brightness), int(color[2] * brightness)]
ScaleFrame(frame, f) ==
    [i \in 1..Len(frame) |->
        << (frame[i][1] * f.num) \div f.den,
           (frame[i][2] * f.num) \div f.den,
           (frame[i][3] * f.num) \div f.den >>]

(***************************************************************************)
(* Segment, Effect, Scene rendering.                                       *)
(* A segment is [color, transparency, length, current_position, fade,      *)
(* gradient]; transparency is in percent, current_position in 1/PosUnit.  *)
(***************************************************************************)
RECURSIVE SumLengths(_)
SumLengths(ls) ==
    IF ls = <<>> THEN 0 ELSE Max(0, Head(ls)) + SumLengths(Tail(ls))

\* int(c * final_transparency * final_brightness), both factors in percent
ScaleChannel(c, t, b) == TruncDiv(c * t * b, 10000)

\* _calculate_led_color without max(0, min(255, ...)) around each channel
calculate_led_color_unclamped(color_index, transparency, brightness, palette) ==
    IF ~(0 <= color_index /\ color_index < Len(palette))
    THEN Black
    ELSE LET base == palette[color_index + 1]
             t == Clamp(0, 100, transparency)
             b == Clamp(0, 100, brightness)
         IN  << ScaleChannel(base[1], t, b), ScaleChannel(base[2], t, b),
                ScaleChannel(base[3], t, b) >>

\* Segment._calculate_led_color; brightness is the product of the fade and
\* gradient factors in percent, 100 when both are off
calculate_led_color(color_index, transparency, brightness, palette) ==
    IF ~(0 <= color_index /\ color_index < Len(palette))
    THEN Black
    ELSE LET base == palette[color_index + 1]
             t == Clamp(0, 100, transparency)
             b == Clamp(0, 100, brightness)
         IN  << Clamp(0, 255, ScaleChannel(base[1], t, b)),
                Clamp(0, 255, ScaleChannel(base[2], t, b)),
                Clamp(0, 255, ScaleChannel(base[3], t, b)) >>

\* Segment._get_single_led_color with fade off
get_single_led_color(seg, k, palette) ==
    IF k > Len(seg.color) THEN Black
    ELSE calculate_led_color(seg.color[k],
            IF k <= Len(seg.transparency) THEN seg.transparency[k] ELSE 100,
            seg.brightness, palette)

RECURSIVE PartColors_colored_only(_, _, _)
\* a part loop that stops at the last part that has a color of its own
PartColors_colored_only(seg, part, palette) ==
    IF part > Len(seg.length) \/ part > Len(seg.color) THEN <<>>
    ELSE LET n == Max(0, seg.length[part])
             tr == IF part <= Len(seg.transparency)
                   THEN seg.transparency[part] ELSE 100
         IN  [i \in 1..n |->
                 calculate_led_color(seg.color[part], tr, seg.brightness, palette)]
             \o PartColors_colored_only(seg, part + 1, palette)

RECURSIVE PartColors(_, _, _)
\* the part loop of Segment.get_led_colors, parts part..len(length)
PartColors(seg, part, palette) ==
    IF part > Len(seg.length) THEN <<>>
    ELSE LET n == Max(0, seg.length[part])
             ci == IF part <= Len(seg.color) THEN seg.color[part] ELSE 0
             tr == IF part <= Len(seg.transparency)
                   THEN seg.transparency[part] ELSE 100
         IN  [i \in 1..n |-> calculate_led_color(ci, tr, seg.brightness, palette)]
             \o PartColors(seg, part + 1, palette)

\* Segment._get_brightness_at_position for a segment with fade on, as the
\* fraction num / den: progress = relative_pos / total_length clamped to
\* [0, 1], dimmer_pos = progress * (len(dimmer_time) - 1), the linear
\* interpolation between the two knots around it, over 100, clamped to [0, 1]
get_brightness_at_position(dimmer_time, relative_pos, total_length) ==
    IF dimmer_time = << >> \/ total_length <= 0 THEN [num |-> 1, den |-> 1]
    ELSE IF Len(dimmer_time) <= 1 THEN [num |-> dimmer_time[1], den |-> 100]
    ELSE LET knots == Len(dimmer_time) - 1
             scaled == Clamp(0, total_length, relative_pos) * knots
             index == scaled \div total_length
             rest == scaled % total_length
         IN  IF index >= knots
             THEN [num |-> Clamp(0, 100, dimmer_time[Len(dimmer_time)]),
                   den |-> 100]
             ELSE LET current_value == dimmer_time[index + 1]
                      next_value == dimmer_time[index + 2]
                  IN  [num |-> Clamp(0, 100 * total_length,
                                     current_value * total_length +
                                         (next_value - current_value) * rest),
                       den |-> 100 * total_length]

\* _calculate_led_color with the fade factor b = num / den:
\* max(0, min(255, int(c * final_transparency * final_brightness)))
calculate_faded_color(color_index, transparency, b, palette) ==
    IF ~(0 <= color_index /\ color_index < Len(palette))
    THEN Black
    ELSE LET base == palette[color_index + 1]
             t == Clamp(0, 100, transparency)
             num == Clamp(0, b.den, b.num)
             scale(c) == Clamp(0, 255, TruncDiv(c * t * num, 100 * b.den))
         IN  << scale(base[1]), scale(base[2]), scale(base[3]) >>

RECURSIVE FadePartColors(_, _, _, _)
\* the part loop of Segment.get_led_colors with fade on: current_led_index
\* counts the LEDs emitted so far
FadePartColors(seg, part, current_led_index, palette) ==
    IF part > Len(seg.length) THEN <<>>
    ELSE LET n == Max(0, seg.length[part])
             ci == IF part <= Len(seg.color) THEN seg.color[part] ELSE 0
             tr == IF part <= Len(seg.transparency)
                   THEN seg.transparency[part] ELSE 100
         IN  [i \in 1..n |->
                 calculate_faded_color(ci, tr,
                     get_brightness_at_position(seg.dimmer_time,
                         current_led_index + i - 1, SumLengths(seg.length)),
                     palette)]
             \o FadePartColors(seg, part + 1, current_led_index + n, palette)

\* Segment.get_led_colors; the fading segments modelled have a length for
\* every color, as __post_init__ leaves them
get_led_colors(seg, palette) ==
    IF seg.color = <<>> \/ palette = <<>> THEN <<>>
    ELSE IF seg.fade /\ Len(seg.color) <= Len(seg.length)
    THEN FadePartColors(seg, 1, 0, palette)
    ELSE LET extra == IF Len(seg.color) > Len(seg.length)
                      THEN [j \in 1..(Len(seg.color) - Len(seg.length)) |->
                               get_single_led_color(seg, Len(seg.length) + j, palette)]
                      ELSE <<>>
         IN  IF SumLengths(seg.length) = 0
             THEN IF Len(seg.color) > Len(seg.length)
                  THEN [i \in 1..Len(seg.color) |-> get_single_led_color(seg, i, palette)]
                  ELSE <<>>
             ELSE PartColors(seg, 1, palette) \o extra

RECURSIVE Composite_last_wins(_, _, _)
\* the segment loop as it would be if a segment overwrote the LEDs it covers
Composite_last_wins(frame, segs, palette) ==
    IF segs = <<>> THEN frame
    ELSE LET seg == Head(segs)
             cols == get_led_colors(seg, palette)
             start == TruncDiv(seg.current_position, PosUnit)
             painted == [k \in 1..Len(frame) |->
                 LET i == (k - 1) - start
                 IN  IF 0 <= i /\ i < Len(cols) THEN cols[i + 1] ELSE frame[k]]
         IN  Composite_last_wins(painted, Tail(segs), palette)

RECURSIVE Composite(_, _, _)
\* the segment loop of Effect.get_led_output: channel-wise maximum
Composite(frame, segs, palette) ==
    IF segs = <<>> THEN frame
    ELSE LET seg == Head(segs)
             cols == get_led_colors(seg, palette)
             start == TruncDiv(seg.current_position, PosUnit)
             painted == [k \in 1..Len(frame) |->
                 LET i == (k - 1) - start
                 IN  IF 0 <= i /\ i < Len(cols)
                     THEN << Max(frame[k][1], cols[i + 1][1]),
                             Max(frame[k][2], cols[i + 1][2]),
                             Max(frame[k][3], cols[i + 1][3]) >>
                     ELSE frame[k]]
         IN  Composite(painted, Tail(segs), palette)

\* Effect.get_led_output
Effect_get_led_output(effect, palette) ==
    Composite(BlackFrame(effect.led_count), effect.segments, palette)

\* Scene.get_current_palette
get_current_palette(scene) ==
    IF scene.current_palette \in DOMAIN scene.palettes
    THEN scene.palettes[scene.current_palette]
    ELSE WhitePalette

\* Scene.get_led_output
Scene_get_led_output(scene) ==
    IF scene.current_effect_id \in DOMAIN scene.effects
    THEN Effect_get_led_output(scene.effects[scene.current_effect_id],
                         get_current_palette(scene))
    ELSE BlackFrame(SceneFallbackLeds)

(***************************************************************************)
(* The scene files the control plane can name (the inputs of /load_json).  *)
(***************************************************************************)
Seg(ci, len, pos) ==
    [color |-> <<ci>>, transparency |-> <<100>>, length |-> <<len>>,
     current_position |-> pos * PosUnit, move_speed |-> 0, fade |-> FALSE,
     gradient |-> FALSE, move_range |-> <<0, 224>>, is_edge_reflect |-> TRUE,
     initial_position |-> pos, brightness |-> 100]

\* a segment that moves: move_speed in LEDs per second, move_range [lo, hi]
MovingSeg(ci, pos, speed, lo, hi, reflect) ==
    [Seg(ci, 1, pos) EXCEPT !.move_speed = speed, !.move_range = <<lo, hi>>,
                            !.is_edge_reflect = reflect]

PaletteA == << <<200, 0, 0>>, <<0, 100, 0>>, <<0, 0, 50>>,
               <<255, 255, 255>>, <<0, 0, 0>>, <<10, 20, 30>> >>
PaletteB == << <<0, 0, 90>>, <<40, 40, 0>>, <<0, 60, 0>>,
               <<1, 2, 3>>, <<0, 0, 0>>, <<250, 250, 250>> >>

SceneOne ==
    [scene_id |-> 1, current_effect_id |-> 1, current_palette |-> "A",
     palettes |-> [p \in {"A", "B"} |-> IF p = "A" THEN PaletteA ELSE PaletteB],
     effects |-> [e \in {0, 1, 2} |->
        CASE e = 0 -> [effect_id |-> 0, led_count |-> 3, segments |-> <<Seg(2, 1, 2)>>]
          [] e = 1 -> [effect_id |-> 1, led_count |-> 3, segments |-> <<Seg(0, 1, 0)>>]
          [] e = 2 -> [effect_id |-> 2, led_count |-> 2, segments |-> <<Seg(1, 2, 0)>>]]]

SceneTwo ==
    [scene_id |-> 2, current_effect_id |-> 3, current_palette |-> "C",
     palettes |-> [p \in {"C"} |-> PaletteB],
     effects |-> [e \in {3} |->
        [effect_id |-> 3, led_count |-> 2, segments |-> <<Seg(5, 1, 1)>>]]]

SceneZero ==
    [scene_id |-> 0, current_effect_id |-> 1, current_palette |-> "A",
     palettes |-> [p \in {"A"} |-> PaletteA],
     effects |-> [e \in {1} |->
        [effect_id |-> 1, led_count |-> 3, segments |-> <<Seg(0, 2, 1)>>]]]

\* a scene of moving segments, each inside its move_range: wrapping from the
\* upper end, wrapping from the middle, reflecting from the upper end,
\* reflecting from the lower end
SceneMotion ==
    [scene_id |-> 3, current_effect_id |-> 1, current_palette |-> "A",
     palettes |-> [p \in {"A"} |-> PaletteA],
     effects |-> [e \in {1} |->
        [effect_id |-> 1, led_count |-> 4,
         segments |-> << MovingSeg(0, 3, 50, 0, 3, FALSE),
                         MovingSeg(1, 1, -50, 0, 3, FALSE),
                         MovingSeg(2, 3, 50, 1, 3, TRUE),
                         MovingSeg(3, 0, -50, 0, 2, TRUE) >>]]]

\* two scenes of two effects each, every effect with its time accumulator
\* (Effect.time, 0.0 at construction, in ms here) and a moving segment; the
\* effects of the other files leave the accumulator out, nothing reading it
SceneAdvance(id) ==
    [scene_id |-> id, current_effect_id |-> 1, current_palette |-> "A",
     palettes |-> [p \in {"A", "B"} |-> IF p = "A" THEN PaletteA ELSE PaletteB],
     effects |-> [e \in {1, 2} |->
        [effect_id |-> e, led_count |-> 4, time |-> 0,
         segments |-> IF e = 1
                      THEN << MovingSeg(0, id, 50, 0, 3, TRUE) >>
                      ELSE << MovingSeg(1, 1, -50, 0, 3, FALSE),
                              Seg(2, 1, 0) >>]]]

\* a segment whose transparency and whose fade and gradient product are
\* anything, in percent
GlareSeg(ci, pos, transparency, brightness) ==
    [Seg(ci, 1, pos) EXCEPT !.transparency = <<transparency>>,
                            !.brightness = brightness]

\* a scene whose file holds palette channels, transparencies and dimmer
\* values outside their ranges
PaletteGlare == << <<300, -5, 7>>, <<1000, 256, -1>>, <<102, 51, 153>>,
                   <<-300, 90, 600>>, <<0, 0, 0>>, <<200, 20, 30>> >>

SceneGlare ==
    [scene_id |-> 5, current_effect_id |-> 1, current_palette |-> "A",
     palettes |-> [p \in {"A"} |-> PaletteGlare],
     effects |-> [e \in {1, 2} |->
        IF e = 1
        THEN [effect_id |-> 1, led_count |-> 4,
              segments |-> << GlareSeg(0, 0, 100, 100), GlareSeg(1, 1, 150, 250),
                              GlareSeg(2, 2, 100, 100), GlareSeg(5, 3, 100, 100) >>]
        ELSE [effect_id |-> 2, led_count |-> 3,
              segments |-> << GlareSeg(1, 0, -20, 100), GlareSeg(2, 1, 100, -50),
                              GlareSeg(3, 1, 50, 100) >>]]]

\* segments that overlap each other and the ends of a strip of 3 LEDs, in
\* the order seq of their indices
PaletteOrder == << <<255, 0, 0>>, <<0, 128, 0>>, <<10, 200, 30>>,
                   <<40, 40, 250>>, <<0, 0, 0>>, <<1, 1, 1>> >>

OrderSegs == << Seg(0, 2, 0), Seg(1, 2, 1), Seg(2, 2, 2), Seg(3, 2, -1) >>

OrderSeqs ==
    { seq \in UNION { [1..n -> 1..Len(OrderSegs)] : n \in 1..Len(OrderSegs) } :
        \A i, j \in DOMAIN seq : i # j => seq[i] # seq[j] }

OrderScene(seq) ==
    [scene_id |-> 6, current_effect_id |-> 1, current_palette |-> "A",
     palettes |-> [p \in {"A"} |-> PaletteOrder],
     effects |-> [e \in {1} |->
        [effect_id |-> 1, led_count |-> 3,
         segments |-> [i \in 1..Len(seq) |-> OrderSegs[seq[i]]]]]]

\* Segment.__post_init__ on the lists: an empty color becomes [0], an empty
\* transparency [1.0] * len(color), an empty length [1] * len(color), and
\* transparency and length are padded with 1.0 and 1 up to len(color)
PadTo(list, n, v) ==
    [i \in 1..Max(Len(list), n) |-> IF i <= Len(list) THEN list[i] ELSE v]

Segment_post_init(seg) ==
    LET color == IF seg.color = << >> THEN <<0>> ELSE seg.color
    IN  [seg EXCEPT !.color = color,
                    !.transparency = PadTo(seg.transparency, Len(color), 100),
                    !.length = PadTo(seg.length, Len(color), 1)]

\* the lists of at most MaxListLen entries over S
ListsOver(S) == UNION { [1..n -> S] : n \in 0..MaxListLen }

\* segment entries with color, length and transparency lists of any lengths:
\* colours inside and outside the palette, part lengths negative, zero and
\* positive
ListDicts ==
    [color : ListsOver({0, 7}), length : ListsOver({-1, 0, 2}),
     transparency : {<< >>, <<50>>}]

\* Scene.from_dict on a scene entry with one effect of one segment built
\* from the lists of d
ListScene(d) ==
    [scene_id |-> 4, current_effect_id |-> 1, current_palette |-> "A",
     palettes |-> [p \in {"A"} |-> PaletteA],
     effects |-> [e \in {1} |->
        [effect_id |-> 1, led_count |-> 4,
         segments |-> << Segment_post_init(
                            [Seg(0, 1, 0) EXCEPT !.color = d.color,
                                                 !.length = d.length,
                                                 !.transparency = d.transparency]) >>]]]

\* segment entries with fade on: dimmer curves of three and five knots, of
\* one knot and of none, over parts of solid white (palette A entry 3) and of
\* red (entry 0)
FadeDicts ==
    [dimmer_time : {<<0, 100, 0>>, <<0, 100, 200, 100, 0>>, <<50>>, << >>},
     color : {<<3>>, <<0, 3>>},
     length : {<<5>>, <<2, 3>>, <<1>>}]

\* Scene.from_dict on a scene entry with one effect of one fading segment
FadeScene(d) ==
    [scene_id |-> 4, current_effect_id |-> 1, current_palette |-> "A",
     palettes |-> [p \in {"A"} |-> PaletteA],
     effects |-> [e \in {1} |->
        [effect_id |-> 1, led_count |-> 5,
         segments |-> << Segment_post_init(
            [color |-> d.color, transparency |-> << >>, length |-> d.length,
             current_position |-> 0, move_speed |-> 0, fade |-> TRUE,
             gradient |-> FALSE, move_range |-> <<0, 224>>,
             is_edge_reflect |-> TRUE, initial_position |-> 0,
             brightness |-> 100, dimmer_time |-> d.dimmer_time]) >>]]]

\* Segment.from_dict and __post_init__ on the keys of a segment entry:
\* move_speed, move_range, initial_position (in LEDs), current_position (in
\* 1/PosUnit, 0 when the key is absent) and is_edge_reflect.  A
\* current_position of 0.0 is replaced by the initial position.
Segment_from_dict(d) ==
    [Seg(0, 1, d.initial_position) EXCEPT
        !.move_speed = d.move_speed,
        !.move_range = d.move_range,
        !.is_edge_reflect = d.is_edge_reflect,
        !.current_position = IF d.current_position = 0
                             THEN d.initial_position * PosUnit
                             ELSE d.current_position]

\* Scene.from_dict on a scene entry with one effect of one segment
SegmentScene(d) ==
    [scene_id |-> 4, current_effect_id |-> 1, current_palette |-> "A",
     palettes |-> [p \in {"A"} |-> PaletteA],
     effects |-> [e \in {1} |->
        [effect_id |-> 1, led_count |-> 4,
         segments |-> << Segment_from_dict(d) >>]]]

\* Segment.to_dict, on the keys Segment_from_dict reads: every field is
\* written as it stands, the current position included
Segment_to_dict(seg) ==
    [move_speed |-> seg.move_speed, move_range |-> seg.move_range,
     initial_position |-> seg.initial_position,
     current_position |-> seg.current_position,
     is_edge_reflect |-> seg.is_edge_reflect]

\* Scene.to_dict and Effect.to_dict: the scene's and the effects' own fields
\* as they stand, every segment through Segment.to_dict
Scene_to_dict(scene) ==
    [scene EXCEPT !.effects =
        [e \in DOMAIN scene.effects |->
            [scene.effects[e] EXCEPT !.segments =
                [i \in DOMAIN scene.effects[e].segments |->
                    Segment_to_dict(scene.effects[e].segments[i])]]]]

\* Scene.from_dict and Effect.from_dict: the fields as written, every
\* segment entry through Segment.from_dict
Scene_from_dict(data) ==
    [data EXCEPT !.effects =
        [e \in DOMAIN data.effects |->
            [data.effects[e] EXCEPT !.segments =
                [i \in DOMAIN data.effects[e].segments |->
                    Segment_from_dict(data.effects[e].segments[i])]]]]

\* the segment entries a scene description can hold: still or moving either
\* way, reflecting or wrapping, starting below, inside, at the ends of, or
\* above the range
SegmentDicts ==
    [move_speed : {-50, 0, 50}, move_range : {<<0, 3>>, <<1, 3>>},
     initial_position : {0, 1, 3, 5}, current_position : {0},
     is_edge_reflect : BOOLEAN]

\* the files of the start-up load and of /load_json
FileNames ==
    {"test.json", "multiple_scenes.json", "broken.json", "missing.json",
     "nokeys.json", "empty_scenes.json", "partial.json", "allbad.json",
     "zero.json", "motion.json", "glare.json", "advance.json"}

\* shape: "single" (scene_ID at the root), "multi" (scenes at the root),
\* "invalid" (not JSON, or neither key), "unreadable" (open fails);
\* hint: the path contains "multiple" or "scenes"; scenes: the scene entries;
\* bad: the entries Scene.from_dict cannot build (no scene_ID, or a required
\* key missing)
Files ==
    [f \in FileNames |->
        CASE f = "test.json" ->
               [shape |-> "single", hint |-> FALSE, scenes |-> <<SceneOne>>,
                bad |-> {}]
          [] f = "multiple_scenes.json" ->
               [shape |-> "multi", hint |-> TRUE,
                scenes |-> <<SceneOne, SceneTwo, SceneZero>>, bad |-> {}]
          [] f = "broken.json" ->
               [shape |-> "invalid", hint |-> FALSE, scenes |-> <<>>, bad |-> {}]
          [] f = "missing.json" ->
               [shape |-> "unreadable", hint |-> FALSE, scenes |-> <<>>,
                bad |-> {}]
          [] f = "nokeys.json" ->
               [shape |-> "single", hint |-> FALSE, scenes |-> <<SceneTwo>>,
                bad |-> {1}]
          [] f = "empty_scenes.json" ->
               [shape |-> "multi", hint |-> TRUE, scenes |-> <<>>, bad |-> {}]
          [] f = "partial.json" ->
               [shape |-> "multi", hint |-> FALSE,
                scenes |-> <<SceneOne, SceneTwo>>, bad |-> {1}]
          [] f = "allbad.json" ->
               [shape |-> "multi", hint |-> FALSE,
                scenes |-> <<SceneOne, SceneTwo>>, bad |-> {1, 2}]
          [] f = "zero.json" ->
               [shape |-> "single", hint |-> FALSE, scenes |-> <<SceneZero>>,
                bad |-> {}]
          [] f = "motion.json" ->
               [shape |-> "single", hint |-> FALSE, scenes |-> <<SceneMotion>>,
                bad |-> {}]
          [] f = "glare.json" ->
               [shape |-> "single", hint |-> FALSE, scenes |-> <<SceneGlare>>,
                bad |-> {}]
          [] f = "advance.json" ->
               [shape |-> "multi", hint |-> FALSE,
                scenes |-> <<SceneAdvance(1), SceneAdvance(2)>>, bad |-> {}]]


(***************************************************************************)
(* SceneManager.  sm is the record [scenes, active_scene_id,               *)
(* pattern_transition]; every operation returns the new sm and its result. *)
(***************************************************************************)
\* PatternTransition() as constructed in SceneManager.__init__
InitialTransition ==
    [is_active |-> FALSE, phase |-> "completed",
     from_effect_id |-> None, from_palette_id |-> NoPalette,
     to_effect_id |-> None, to_palette_id |-> NoPalette,
     fade_in_ms |-> 100, fade_out_ms |-> 100, waiting_ms |-> 50,
     phase_start_time |-> 0, progress |-> Frac(0, 1)]

\* "not self.active_scene_id or self.active_scene_id not in self.scenes"
NoActiveScene(sm) ==
    Falsy(sm.active_scene_id) \/ sm.active_scene_id \notin DOMAIN sm.scenes

\* start_pattern_transition as it would be if it refused a request made while a
\* transition is active
start_pattern_transition_refusing(sm, cfg, to_effect_id, to_palette_id, t) ==
    IF NoActiveScene(sm) \/ sm.pattern_transition.is_active
    THEN [ret |-> FALSE, sm |-> sm]
    ELSE LET cur == sm.scenes[sm.active_scene_id]
         IN  [ret |-> TRUE,
              sm |-> [sm EXCEPT !.pattern_transition =
                 [is_active |-> TRUE, phase |-> "fade_out",
                  from_effect_id |-> cur.current_effect_id,
                  from_palette_id |-> cur.current_palette,
                  to_effect_id |-> IF Falsy(to_effect_id)
                                   THEN cur.current_effect_id ELSE to_effect_id,
                  to_palette_id |-> IF FalsyStr(to_palette_id)
                                    THEN cur.current_palette ELSE to_palette_id,
                  fade_in_ms |-> cfg.fade_in_ms,
                  fade_out_ms |-> cfg.fade_out_ms,
                  waiting_ms |-> cfg.waiting_ms,
                  phase_start_time |-> t,
                  progress |-> Frac(0, 1)]]]

\* SceneManager.start_pattern_transition
start_pattern_transition(sm, cfg, to_effect_id, to_palette_id, t) ==
    IF NoActiveScene(sm) THEN [ret |-> FALSE, sm |-> sm]
    ELSE LET cur == sm.scenes[sm.active_scene_id]
             pt == [is_active |-> TRUE, phase |-> "fade_out",
                    from_effect_id |-> cur.current_effect_id,
                    from_palette_id |-> cur.current_palette,
                    to_effect_id |-> IF Falsy(to_effect_id)
                                     THEN cur.current_effect_id ELSE to_effect_id,
                    to_palette_id |-> IF FalsyStr(to_palette_id)
                                      THEN cur.current_palette ELSE to_palette_id,
                    fade_in_ms |-> cfg.fade_in_ms,
                    fade_out_ms |-> cfg.fade_out_ms,
                    waiting_ms |-> cfg.waiting_ms,
                    phase_start_time |-> t,
                    progress |-> Frac(0, 1)]
         IN  [ret |-> TRUE, sm |-> [sm EXCEPT !.pattern_transition = pt]]

\* SceneManager._complete_pattern_transition
complete_pattern_transition(sm) ==
    IF NoActiveScene(sm) THEN sm
    ELSE LET pt == sm.pattern_transition
         IN  [sm EXCEPT
                !.scenes[sm.active_scene_id].current_effect_id = pt.to_effect_id,
                !.scenes[sm.active_scene_id].current_palette = pt.to_palette_id,
                !.pattern_transition.is_active = FALSE,
                !.pattern_transition.phase = "completed"]

\* _update_pattern_transition as it would be if a phase ended only once its
\* duration is exceeded (> for >=)
update_pattern_transition_strict(sm, current_time) ==
    LET pt == sm.pattern_transition
        phase_elapsed == current_time - pt.phase_start_time
    IN  IF ~pt.is_active THEN sm
        ELSE CASE pt.phase = "fade_out" ->
                    IF phase_elapsed > pt.fade_out_ms
                    THEN [sm EXCEPT !.pattern_transition.phase = "waiting",
                                    !.pattern_transition.phase_start_time = current_time]
                    ELSE [sm EXCEPT !.pattern_transition.progress =
                             IF pt.fade_out_ms = 0 THEN Frac(1, 1)
                             ELSE Frac(pt.fade_out_ms - phase_elapsed, pt.fade_out_ms)]
               [] pt.phase = "waiting" ->
                    IF phase_elapsed > pt.waiting_ms
                    THEN [sm EXCEPT !.pattern_transition.phase = "fade_in",
                                    !.pattern_transition.phase_start_time = current_time]
                    ELSE [sm EXCEPT !.pattern_transition.progress = Frac(0, 1)]
               [] pt.phase = "fade_in" ->
                    IF phase_elapsed > pt.fade_in_ms
                    THEN complete_pattern_transition(sm)
                    ELSE [sm EXCEPT !.pattern_transition.progress =
                             IF pt.fade_in_ms = 0 THEN Frac(0, 1)
                             ELSE Frac(phase_elapsed, pt.fade_in_ms)]
               [] OTHER -> sm

\* _update_pattern_transition as it would be if the end of FADE_OUT led
\* straight to FADE_IN
update_pattern_transition_skipping(sm, current_time) ==
    LET pt == sm.pattern_transition
        phase_elapsed == current_time - pt.phase_start_time
    IN  IF ~pt.is_active THEN sm
        ELSE CASE pt.phase = "fade_out" ->
                    IF phase_elapsed >= pt.fade_out_ms
                    THEN [sm EXCEPT !.pattern_transition.phase = "fade_in",
                                    !.pattern_transition.phase_start_time = current_time]
                    ELSE [sm EXCEPT !.pattern_transition.progress =
                             Frac(pt.fade_out_ms - phase_elapsed, pt.fade_out_ms)]
               [] pt.phase = "waiting" ->
                    IF phase_elapsed >= pt.waiting_ms
                    THEN [sm EXCEPT !.pattern_transition.phase = "fade_in",
                                    !.pattern_transition.phase_start_time = current_time]
                    ELSE [sm EXCEPT !.pattern_transition.progress = Frac(0, 1)]
               [] pt.phase = "fade_in" ->
                    IF phase_elapsed >= pt.fade_in_ms
                    THEN complete_pattern_transition(sm)
                    ELSE [sm EXCEPT !.pattern_transition.progress =
                             Frac(phase_elapsed, pt.fade_in_ms)]
               [] OTHER -> sm

\* SceneManager._update_pattern_transition
update_pattern_transition(sm, current_time) ==
    LET pt == sm.pattern_transition
        phase_elapsed == current_time - pt.phase_start_time
    IN  IF ~pt.is_active THEN sm
        ELSE CASE pt.phase = "fade_out" ->
                    IF phase_elapsed >= pt.fade_out_ms
                    THEN [sm EXCEPT !.pattern_transition.phase = "waiting",
                                    !.pattern_transition.phase_start_time = current_time]
                    ELSE [sm EXCEPT !.pattern_transition.progress =
                             Frac(pt.fade_out_ms - phase_elapsed, pt.fade_out_ms)]
               [] pt.phase = "waiting" ->
                    IF phase_elapsed >= pt.waiting_ms
                    THEN [sm EXCEPT !.pattern_transition.phase = "fade_in",
                                    !.pattern_transition.phase_start_time = current_time]
                    ELSE [sm EXCEPT !.pattern_transition.progress = Frac(0, 1)]
               [] pt.phase = "fade_in" ->
                    IF phase_elapsed >= pt.fade_in_ms
                    THEN complete_pattern_transition(sm)
                    ELSE [sm EXCEPT !.pattern_transition.progress =
                             Frac(phase_elapsed, pt.fade_in_ms)]
               [] OTHER -> sm

\* SceneManager._get_transition_led_output: the frame and the scene it
\* rewrites on the way
get_transition_led_output(sm) ==
    IF NoActiveScene(sm)
    THEN [frame |-> BlackFrame(ConfigLedCount), sm |-> sm]
    ELSE LET pt == sm.pattern_transition
             a == sm.active_scene_id
             asFrom == [sm EXCEPT
                 !.scenes[a].current_effect_id = pt.from_effect_id,
                 !.scenes[a].current_palette = pt.from_palette_id]
             asTo == [sm EXCEPT
                 !.scenes[a].current_effect_id = pt.to_effect_id,
                 !.scenes[a].current_palette = pt.to_palette_id]
         IN  CASE pt.phase = "fade_out" ->
                    [frame |-> ScaleFrame(Scene_get_led_output(asFrom.scenes[a]),
                                          pt.progress),
                     sm |-> asFrom]
               [] pt.phase = "waiting" ->
                    [frame |-> BlackFrame(ConfigLedCount), sm |-> sm]
               [] pt.phase = "fade_in" ->
                    [frame |-> ScaleFrame(Scene_get_led_output(asTo.scenes[a]),
                                          pt.progress),
                     sm |-> asTo]
               [] OTHER -> [frame |-> BlackFrame(ConfigLedCount), sm |-> sm]

\* SceneManager.get_led_output
get_led_output(sm) ==
    IF ~sm.pattern_transition.is_active
    THEN IF ~NoActiveScene(sm)
         THEN [frame |-> Scene_get_led_output(sm.scenes[sm.active_scene_id]),
               sm |-> sm]
         ELSE [frame |-> BlackFrame(ConfigLedCount), sm |-> sm]
    ELSE get_transition_led_output(sm)

\* self.scenes[scene.scene_id] = scene; the first scene becomes active
StoreScene(sm, scene) ==
    [sm EXCEPT
        !.scenes = [i \in DOMAIN sm.scenes \cup {scene.scene_id} |->
                       IF i = scene.scene_id THEN scene ELSE sm.scenes[i]],
        !.active_scene_id = IF sm.active_scene_id = None
                            THEN scene.scene_id ELSE sm.active_scene_id]

\* load_scene_from_file as it would be if it stored the scene before the
\* entry is known to be complete
load_scene_from_file_eager(sm, file) ==
    IF file.shape = "single"
    THEN [ret |-> 1 \notin file.bad, sm |-> StoreScene(sm, file.scenes[1])]
    ELSE [ret |-> FALSE, sm |-> sm]

\* SceneManager.load_scene_from_file
load_scene_from_file(sm, file) ==
    IF file.shape = "single" /\ 1 \notin file.bad
    THEN [ret |-> TRUE, sm |-> StoreScene(sm, file.scenes[1])]
    ELSE [ret |-> FALSE, sm |-> sm]

\* the entries of a file that Scene.from_dict builds, in order
RECURSIVE GoodScenes(_, _)
GoodScenes(file, i) ==
    IF i > Len(file.scenes) THEN << >>
    ELSE (IF i \in file.bad THEN << >> ELSE <<file.scenes[i]>>)
         \o GoodScenes(file, i + 1)

RECURSIVE StoreScenes(_, _)
StoreScenes(sm, scs) ==
    IF scs = <<>> THEN sm ELSE StoreScenes(StoreScene(sm, Head(scs)), Tail(scs))

\* SceneManager.load_scene, on the scene Scene.from_dict built
load_scene(sm, scene) == [ret |-> TRUE, sm |-> StoreScene(sm, scene)]

\* SceneManager.load_multiple_scenes_from_file
load_multiple_scenes_from_file(sm, file) ==
    IF file.shape = "multi" /\ file.scenes # <<>>
    THEN LET good == GoodScenes(file, 1)
         IN  [ret |-> good # << >>, sm |-> StoreScenes(sm, good)]
    ELSE [ret |-> FALSE, sm |-> sm]

\* SceneManager.switch_scene
switch_scene(sm, scene_id) ==
    IF scene_id \notin DOMAIN sm.scenes THEN [ret |-> FALSE, sm |-> sm]
    ELSE [ret |-> TRUE, sm |-> [sm EXCEPT !.active_scene_id = scene_id]]

\* set_effect as it would be if it did not look the effect up first
set_effect_unchecked(sm, cfg, enabled, effect_id, t) ==
    IF NoActiveScene(sm) THEN [ret |-> FALSE, sm |-> sm]
    ELSE IF enabled
    THEN start_pattern_transition(sm, cfg, effect_id, NoPalette, t)
    ELSE [ret |-> TRUE,
          sm |-> [sm EXCEPT !.scenes[sm.active_scene_id].current_effect_id = effect_id]]

\* SceneManager.set_effect
set_effect(sm, cfg, enabled, effect_id, t) ==
    IF NoActiveScene(sm) THEN [ret |-> FALSE, sm |-> sm]
    ELSE IF effect_id \notin DOMAIN sm.scenes[sm.active_scene_id].effects
    THEN [ret |-> FALSE, sm |-> sm]
    ELSE IF enabled
    THEN start_pattern_transition(sm, cfg, effect_id, NoPalette, t)
    ELSE [ret |-> TRUE,
          sm |-> [sm EXCEPT !.scenes[sm.active_scene_id].current_effect_id = effect_id]]

\* SceneManager.set_palette
set_palette(sm, cfg, enabled, palette_id, t) ==
    IF NoActiveScene(sm) THEN [ret |-> FALSE, sm |-> sm]
    ELSE IF palette_id \notin DOMAIN sm.scenes[sm.active_scene_id].palettes
    THEN [ret |-> FALSE, sm |-> sm]
    ELSE IF enabled
    THEN start_pattern_transition(sm, cfg, None, palette_id, t)
    ELSE [ret |-> TRUE,
          sm |-> [sm EXCEPT !.scenes[sm.active_scene_id].current_palette = palette_id]]

\* SceneManager.update_palette_color
update_palette_color(sm, palette_id, color_id, rgb) ==
    IF NoActiveScene(sm) THEN [ret |-> FALSE, sm |-> sm]
    ELSE LET a == sm.active_scene_id IN
         IF palette_id \notin DOMAIN sm.scenes[a].palettes
         THEN [ret |-> FALSE, sm |-> sm]
         ELSE IF 0 <= color_id /\ color_id < Len(sm.scenes[a].palettes[palette_id])
         THEN [ret |-> TRUE,
               sm |-> [sm EXCEPT !.scenes[a].palettes[palette_id][color_id + 1] =
                                     SubSeq(rgb, 1, Min(3, Len(rgb)))]]
         ELSE [ret |-> FALSE, sm |-> sm]

\* Segment.update_position; delta_time in ms, so move_speed * delta_time is
\* in thousandths of a LED
Abs(x) == IF x >= 0 THEN x ELSE -x

\* an update_position that mirrors the overshoot back into the range
\* instead of stopping at the edge
update_position_mirroring(seg, delta_time) ==
    IF seg.move_speed = 0 THEN seg
    ELSE LET moved == seg.current_position +
                      TruncDiv(seg.move_speed * delta_time * PosUnit, 1000)
             min_pos == seg.move_range[1] * PosUnit
             max_pos == seg.move_range[2] * PosUnit
             range_size == max_pos - min_pos
         IN  IF seg.is_edge_reflect
             THEN IF moved <= min_pos
                  THEN [seg EXCEPT !.current_position =
                                       Min(max_pos, 2 * min_pos - moved),
                                   !.move_speed = Abs(seg.move_speed)]
                  ELSE IF moved >= max_pos
                  THEN [seg EXCEPT !.current_position =
                                       Max(min_pos, 2 * max_pos - moved),
                                   !.move_speed = -Abs(seg.move_speed)]
                  ELSE [seg EXCEPT !.current_position = moved]
             ELSE IF range_size > 0
                  THEN [seg EXCEPT !.current_position =
                                       min_pos + ((moved - min_pos) % range_size)]
                  ELSE [seg EXCEPT !.current_position = moved]

update_position(seg, delta_time) ==
    IF seg.move_speed = 0 THEN seg
    ELSE LET moved == seg.current_position +
                      TruncDiv(seg.move_speed * delta_time * PosUnit, 1000)
             min_pos == seg.move_range[1] * PosUnit
             max_pos == seg.move_range[2] * PosUnit
             range_size == max_pos - min_pos
         IN  IF seg.is_edge_reflect
             THEN IF moved <= min_pos
                  THEN [seg EXCEPT !.current_position = min_pos,
                                   !.move_speed = Abs(seg.move_speed)]
                  ELSE IF moved >= max_pos
                  THEN [seg EXCEPT !.current_position = max_pos,
                                   !.move_speed = -Abs(seg.move_speed)]
                  ELSE [seg EXCEPT !.current_position = moved]
             ELSE IF range_size > 0
                  THEN [seg EXCEPT !.current_position =
                                       min_pos + ((moved - min_pos) % range_size)]
                  ELSE [seg EXCEPT !.current_position = moved]

\* Effect.update_animation: self.time += delta_time, then every segment of
\* the effect
effect_update_animation(effect, delta_time) ==
    LET timed == IF "time" \in DOMAIN effect
                 THEN [effect EXCEPT !.time = @ + delta_time]
                 ELSE effect
    IN  [timed EXCEPT !.segments =
            [i \in DOMAIN effect.segments |->
                update_position(effect.segments[i], delta_time)]]

\* an update_animation that animates only what is shown: the current effect
\* of the active scene
update_animation_shown_only(sm, current_time, delta_time) ==
    LET t == update_pattern_transition(sm, current_time)
    IN  IF NoActiveScene(t) THEN t
        ELSE LET scene == t.scenes[t.active_scene_id]
             IN  IF scene.current_effect_id \notin DOMAIN scene.effects THEN t
                 ELSE [t EXCEPT
                        !.scenes[t.active_scene_id].effects[scene.current_effect_id] =
                            effect_update_animation(@, delta_time)]

\* SceneManager.update_animation: the transition, then every effect of every
\* scene
update_animation(sm, current_time, delta_time) ==
    LET t == update_pattern_transition(sm, current_time)
    IN  [t EXCEPT !.scenes =
            [id \in DOMAIN t.scenes |->
                [t.scenes[id] EXCEPT !.effects =
                    [e \in DOMAIN t.scenes[id].effects |->
                        effect_update_animation(t.scenes[id].effects[e],
                                                delta_time)]]]]

(***************************************************************************)
(* State.                                                                  *)
(***************************************************************************)
VARIABLES
    scenes,              \* SceneManager.scenes: scene id -> Scene
    active_scene_id,     \* SceneManager.active_scene_id
    pattern_transition,  \* SceneManager.pattern_transition
    transition_config,   \* SceneManager.transition_config
    enabled,             \* EngineSettings.PATTERN_TRANSITION.enabled
    master_brightness,   \* AnimationEngine.master_brightness
    speed_percent,       \* AnimationEngine.speed_percent
    dissolve_time,       \* AnimationEngine.dissolve_time
    now,                 \* time.time() in ms
    pc,                  \* where the AnimationLoop thread is in _update_frame
    snap,                \* its locals speed_percent, master_brightness
    frame_out,           \* the frame SceneManager.get_led_output returned last
    sent,                \* the frame handed to LEDOutput.send_led_data last
    pending,             \* tasks submitted to the executor, not yet run
    message_count,       \* OSCHandler.message_count
    error_count,         \* OSCHandler.error_count
    autoload,            \* AnimationEngine.start has yet to try its default files
    locks,               \* the two RLocks and each thread's SceneManager calls
    calls,               \* how many direct calls of SceneManager were made
    led_output,          \* LEDOutput: clients, output_enabled, send_count, error_count
    send,                \* the AnimationLoop thread's locals in send_led_data
    running,             \* AnimationEngine.running
    stop_pc,             \* where AnimationEngine.stop is
    executor_open,       \* OSCHandler.executor accepts submissions
    last                 \* the operation that ran last: name, args, result

smVars == <<scenes, active_scene_id, pattern_transition>>
cfgVars == <<transition_config, enabled>>
engineVars == <<master_brightness, speed_percent, dissolve_time>>
loopVars == <<pc, snap, sent>>
oscVars == <<pending, message_count, error_count, autoload>>
outVars == <<led_output, send>>
stopVars == <<running, stop_pc, executor_open>>
vars == <<scenes, active_scene_id, pattern_transition, transition_config,
          enabled, master_brightness, speed_percent, dissolve_time, now, pc,
          snap, frame_out, sent, pending, message_count, error_count, autoload,
          locks, calls, led_output, send, running, stop_pc, executor_open,
          last>>

SM == [scenes |-> scenes, active_scene_id |-> active_scene_id,
       pattern_transition |-> pattern_transition]

SetSM(sm) ==
    /\ scenes' = sm.scenes
    /\ active_scene_id' = sm.active_scene_id
    /\ pattern_transition' = sm.pattern_transition

Op(name, args, ret) ==
    [op |-> name, params |-> args, ret |-> ret,
     was_active |-> pattern_transition.is_active]

\* the pattern-transition settings a deployment can configure
TransitionConfigs ==
    { [fade_in_ms |-> 100, fade_out_ms |-> 100, waiting_ms |-> 50],
      [fade_in_ms |-> 0, fade_out_ms |-> 0, waiting_ms |-> 0] }

\* the clock advances between two reads of time.time()
ClockSteps == {50}
\* time.time() is only ever compared with phase_start_time: while no
\* transition is active the clock value is not observed and is left to rest
ClockObserved == pattern_transition.is_active

\* the threads: the AnimationLoop thread and the executor's workers
LoopThread == 0
Workers == 1..MaxWorkers
\* the threads that call AnimationEngine.get_stats: the status loop of
\* main.py and the monitor's refresh
StatsCallers == {MaxWorkers + 1, MaxWorkers + 2}
Threads == {LoopThread} \cup Workers \cup StatsCallers
\* an RLock nobody holds
FreeLock == [owner |-> None, count |-> 0]
\* threading.Lock.acquire: the thread that holds the lock waits as any other
CanAcquire_not_reentrant(lock, t) == lock.owner = None
\* threading.RLock.acquire by thread t can proceed
CanAcquire(lock, t) == lock.owner \in {None, t}
Acquire(lock, t) == [owner |-> t, count |-> lock.count + 1]
Release(lock) ==
    IF lock.count <= 1 THEN FreeLock ELSE [lock EXCEPT !.count = @ - 1]
\* AnimationEngine._lock, SceneManager._lock, and per thread where it is in
\* its handler, get_stats or tick ("idle", "handler", "stats", "snapshot",
\* ...), the stack of SceneManager operations it is executing, and the
\* operation it has called and whose "with self._lock" it has not entered yet
InitialLocks ==
    [engine |-> FreeLock, sm |-> FreeLock,
     at |-> [t \in Threads |-> "idle"],
     stack |-> [t \in Threads |-> << >>],
     want |-> [t \in Threads |-> "none"]]

\* LEDOutput.start: one record per configured destination, its client None
\* (FALSE) when the UDP client could not be created
Client(has_client) ==
    [client |-> has_client, send_count |-> 0, error_count |-> 0]

\* send_led_data's locals outside a call
NotSending == [i |-> 0, client_info |-> None, successful_sends |-> 0,
               before |-> << >>, binary_data |-> << >>]

\* SceneManager.__init__, AnimationEngine.__init__, OSCHandler.__init__,
\* LEDOutput.__init__ and start with the destinations of
\* EngineSettings.ANIMATION.led_destinations; is_running and loop_pc: the
\* running flag and where the loop thread is
Constructed(destinations, is_running, loop_pc) ==
    /\ led_output = [clients |-> destinations, output_enabled |-> TRUE,
                     send_count |-> 0, error_count |-> 0]
    /\ send = NotSending
    /\ running = is_running
    /\ stop_pc = "idle"
    /\ executor_open = TRUE
    /\ scenes = << >>
    /\ active_scene_id = None
    /\ pattern_transition = InitialTransition
    /\ transition_config \in TransitionConfigs
    /\ enabled \in BOOLEAN
    /\ master_brightness = 255
    /\ speed_percent = 100
    /\ dissolve_time = 1000
    /\ now = 0
    /\ pc = loop_pc
    /\ snap = [speed_percent |-> 100, master_brightness |-> 255]
    /\ frame_out = << >>
    /\ sent = << >>
    /\ pending = << >>
    /\ message_count = 0
    /\ error_count = 0
    /\ autoload = TRUE
    /\ locks = InitialLocks
    /\ calls = 0
    /\ last = [op |-> "init", params |-> << >>, ret |-> TRUE, was_active |-> FALSE]

\* the engine started: running set, the loop thread at the head of its loop
InitWith(destinations) == Constructed(destinations, TRUE, "sleep")

\* a deployment with no LED destination configured
Init == InitWith(<< >>)

\* AnimationEngine.__init__: running False, no loop thread yet
StartInit == Constructed(<< >>, FALSE, "unstarted")

\* the clock reaches t
ClockTo(t) ==
    /\ now' = t
    /\ last' = Op("clock", << >>, TRUE)
    /\ UNCHANGED <<locks, calls, outVars, stopVars, smVars, cfgVars, engineVars, loopVars, frame_out, oscVars>>

AdvanceClock ==
    /\ ClockObserved
    /\ \E d \in ClockSteps : now + d <= MaxTime /\ ClockTo(now + d)

\* AnimationEngine.start: with no scene loaded 0.1 s after the loop started,
\* load test.json, else multiple_scenes.json, from the working directory
\* (found: the first of the two that exists there, or "none")
StartAutoLoad ==
    /\ autoload
    /\ autoload' = FALSE
    /\ \E found \in {"test.json", "multiple_scenes.json", "none"} :
         LET r == IF DOMAIN scenes # {} \/ found = "none"
                  THEN [ret |-> FALSE, sm |-> SM]
                  ELSE IF found = "test.json"
                  THEN load_scene_from_file(SM, Files[found])
                  ELSE load_multiple_scenes_from_file(SM, Files[found])
         IN  /\ SetSM(r.sm)
             /\ last' = Op("start", <<found>>, r.ret)
    /\ UNCHANGED <<locks, calls, outVars, stopVars, cfgVars, engineVars, now, loopVars, frame_out, pending,
                   message_count, error_count>>

(***************************************************************************)
(* The AnimationLoop thread: AnimationEngine._update_frame in the three    *)
(* steps its locks separate.                                               *)
(***************************************************************************)
\* while self.running: ... with self._lock: snapshot speed_percent and
\* master_brightness
TickSnapshot ==
    /\ pc = "sleep"
    /\ running
    /\ snap' = [speed_percent |-> speed_percent,
                master_brightness |-> master_brightness]
    /\ pc' = "update"
    /\ last' = Op("snapshot", << >>, TRUE)
    /\ UNCHANGED <<locks, calls, outVars, stopVars, smVars, cfgVars, engineVars, now, frame_out, sent, oscVars>>

\* the time between two frames, in ms: the target period and a late frame
FrameDeltas == {20, 40}

\* adjusted_delta = delta_time * (speed_percent / 100.0);
\* self.scene_manager.update_animation(adjusted_delta)
TickUpdateBy(deltas) ==
    /\ pc = "update"
    /\ \E delta_time \in deltas :
         SetSM(update_animation(SM, now,
                   TruncDiv(delta_time * snap.speed_percent, 100)))
    /\ pc' = "output"
    /\ last' = Op("update_animation", << >>, TRUE)
    /\ UNCHANGED <<locks, calls, outVars, stopVars, cfgVars, engineVars, now, snap, frame_out, sent, oscVars>>

TickUpdate == TickUpdateBy({20})

\* the (c, master_brightness) for which the double c * (master_brightness /
\* 255.0) lies just below the integer c * master_brightness / 255, c and
\* master_brightness in 0..255
BrightnessShortfall ==
    { <<51, 155>>, <<75, 187>>, <<85, 147>>, <<85, 171>>, <<102, 155>>,
      <<150, 187>>, <<153, 155>>, <<153, 195>>, <<165, 187>>, <<170, 147>>,
      <<170, 171>>, <<204, 155>> }

\* int(c * brightness_factor), brightness_factor = master_brightness / 255.0
ScaleByBrightness(c, brightness) ==
    (c * brightness) \div 255 -
        (IF <<c, brightness>> \in BrightnessShortfall THEN 1 ELSE 0)

\* master brightness applied to the frame
ApplyBrightness(frame, brightness) ==
    IF brightness < 255
    THEN [i \in 1..Len(frame) |->
            << ScaleByBrightness(frame[i][1], brightness),
               ScaleByBrightness(frame[i][2], brightness),
               ScaleByBrightness(frame[i][3], brightness) >>]
    ELSE frame

\* a blob of three octets per LED, without the reserved fourth
RECURSIVE convert_to_binary_rgb(_)
convert_to_binary_rgb(led_colors) ==
    IF led_colors = << >> THEN << >>
    ELSE LET color == Head(led_colors)
         IN  << Clamp(0, 255, color[1]), Clamp(0, 255, color[2]),
                Clamp(0, 255, color[3]) >>
             \o convert_to_binary_rgb(Tail(led_colors))

\* LEDOutput._convert_to_binary: for each LED in order
\* struct.pack("BBBB", r, g, b, 0), each channel clamped to 0..255, black
\* for a colour of fewer than three channels
RECURSIVE convert_to_binary(_)
convert_to_binary(led_colors) ==
    IF led_colors = << >> THEN << >>
    ELSE LET color == Head(led_colors)
             rgb == IF Len(color) >= 3
                    THEN << Clamp(0, 255, color[1]), Clamp(0, 255, color[2]),
                            Clamp(0, 255, color[3]) >>
                    ELSE <<0, 0, 0>>
         IN  rgb \o <<0>> \o convert_to_binary(Tail(led_colors))

\* led_colors = self.scene_manager.get_led_output(), scaling, and
\* send_led_data up to its loop over the clients: it returns at once when the
\* output is disabled or the frame is empty, and with no client to visit
TickOutput ==
    /\ pc = "output"
    /\ LET r == get_led_output(SM)
           led_colors == ApplyBrightness(r.frame, snap.master_brightness)
           sends == /\ led_output.output_enabled
                    /\ led_colors # << >>
                    /\ led_output.clients # << >>
       IN  /\ SetSM(r.sm)
           /\ frame_out' = r.frame
           /\ sent' = led_colors
           /\ pc' = IF sends THEN "send" ELSE "sleep"
           /\ send' = IF sends
                      THEN [NotSending EXCEPT
                               !.before = led_output.clients,
                               !.binary_data = convert_to_binary(led_colors)]
                      ELSE NotSending
    /\ last' = Op("get_led_output", << >>, TRUE)
    /\ UNCHANGED <<locks, calls, led_output, stopVars, cfgVars, engineVars, now, snap, oscVars>>

\* a send loop that leaves at the first failed send
send_aborts_on_failure(ok) == ok

\* try: send_message ... except Exception: inside the loop over the clients:
\* the loop goes on to the next client after a send, failed or not
send_continues(ok) == TRUE

\* for client_info in self.clients: the list iterator hands out the next
\* record, if client_info["client"]: keeps it when it has a client; past the
\* end of the list the loop is left, a frame that reached a destination is
\* counted and send_led_data returns
SendNextClient ==
    /\ pc = "send"
    /\ send.client_info = None
    /\ IF send.i < Len(led_output.clients)
       THEN /\ send' = [send EXCEPT
                           !.i = @ + 1,
                           !.client_info =
                               IF led_output.clients[send.i + 1].client
                               THEN send.i + 1 ELSE None]
            /\ UNCHANGED <<pc, led_output>>
       ELSE /\ led_output' = [led_output EXCEPT
                                 !.send_count = IF send.successful_sends > 0
                                                THEN @ + 1 ELSE @]
            /\ send' = NotSending
            /\ pc' = "sleep"
    /\ last' = Op("next_client", << >>, TRUE)
    /\ UNCHANGED <<locks, calls, stopVars, smVars, cfgVars, engineVars, now, snap, frame_out, sent, oscVars>>

\* client_info["client"].send_message(...): delivered (ok) or raising; the
\* record's send_count or error_count is incremented, a failure is counted in
\* LEDOutput.error_count too.  The record is the one the iterator handed
\* out, even when the list was cleared since.
SendMessage ==
    /\ pc = "send"
    /\ send.client_info # None
    /\ \E ok \in BOOLEAN :
         LET k == send.client_info
             counted ==
                 IF k <= Len(led_output.clients)
                 THEN [led_output.clients EXCEPT
                          ![k] = IF ok
                                 THEN [@ EXCEPT !.send_count = @ + 1]
                                 ELSE [@ EXCEPT !.error_count = @ + 1]]
                 ELSE led_output.clients
         IN  /\ led_output' = [led_output EXCEPT
                                  !.clients = counted,
                                  !.error_count = IF ok THEN @ ELSE @ + 1]
             /\ IF send_continues(ok)
                THEN /\ pc' = "send"
                     /\ send' = [send EXCEPT
                                    !.client_info = None,
                                    !.successful_sends =
                                        IF ok THEN @ + 1 ELSE @]
                ELSE /\ pc' = "sleep"
                     /\ send' = NotSending
             /\ last' = Op("send_message", <<k, send.binary_data>>, ok)
    /\ UNCHANGED <<locks, calls, stopVars, smVars, cfgVars, engineVars, now, snap, frame_out, sent, oscVars>>

\* while self.running: found false, the loop is left and the thread ends
LoopExit ==
    /\ pc = "sleep"
    /\ ~running
    /\ pc' = "done"
    /\ last' = Op("loop_exit", << >>, TRUE)
    /\ UNCHANGED <<locks, calls, outVars, stopVars, smVars, cfgVars, engineVars, now, snap, frame_out, sent, oscVars>>

(***************************************************************************)
(* AnimationEngine.start, from the launch of the loop thread on.           *)
(***************************************************************************)
\* self._start_animation_loop(): the thread is started and stands at the
\* head of _animation_loop's while self.running
StartThread ==
    /\ pc = "unstarted"
    /\ pc' = "sleep"
    /\ last' = Op("start_animation_loop", << >>, TRUE)
    /\ UNCHANGED <<locks, calls, outVars, stopVars, smVars, cfgVars, engineVars, now, snap, frame_out, sent, oscVars>>

\* self.running = True, the statement after self._start_animation_loop()
StartRunning ==
    /\ pc # "unstarted"
    /\ ~running
    /\ autoload
    /\ stop_pc = "idle"
    /\ running' = TRUE
    /\ last' = Op("running", << >>, TRUE)
    /\ UNCHANGED <<locks, calls, outVars, stop_pc, executor_open, smVars, cfgVars, engineVars, now, loopVars, frame_out, oscVars>>

(***************************************************************************)
(* AnimationEngine.stop, statement by statement.                           *)
(***************************************************************************)
stopRest == <<locks, calls, smVars, cfgVars, engineVars, now, loopVars,
              frame_out, oscVars>>

\* self.running = False
StopBegin ==
    /\ stop_pc = "idle"
    /\ running' = FALSE
    /\ stop_pc' = "join"
    /\ last' = Op("stop", << >>, TRUE)
    /\ UNCHANGED <<executor_open, outVars, stopRest>>

\* self.animation_thread.join(timeout=1.0) returns: the thread has ended, or
\* the second has passed with the thread still in its iteration
StopJoin ==
    /\ stop_pc = "join"
    /\ stop_pc' = "osc"
    /\ last' = Op("join", << >>, pc = "done")
    /\ UNCHANGED <<running, executor_open, outVars, stopRest>>

\* await self.osc_handler.stop(): server.shutdown() and
\* executor.shutdown(wait=False); the request threads the server started
\* before and the tasks already queued still run
StopOsc ==
    /\ stop_pc = "osc"
    /\ executor_open' = FALSE
    /\ stop_pc' = "led"
    /\ last' = Op("osc_stop", << >>, TRUE)
    /\ UNCHANGED <<running, outVars, stopRest>>

\* await self.led_output.stop(): output_enabled = False and clients.clear(),
\* without LEDOutput._lock; stop returns
StopLed ==
    /\ stop_pc = "led"
    /\ led_output' = [led_output EXCEPT !.output_enabled = FALSE,
                                        !.clients = << >>]
    /\ stop_pc' = "done"
    /\ last' = Op("led_stop", << >>, TRUE)
    /\ UNCHANGED <<running, executor_open, send, stopRest>>

\* the frames begun so far are at most the sends and failures counted
FramesCounted == led_output.send_count + led_output.error_count

(***************************************************************************)
(* The OSC server thread: a message is counted and its handler submitted   *)
(* to the executor (OSCHandler._create_wrapper, _handle_palette_message).  *)
(***************************************************************************)
\* the arguments the clients send with each address
LoadArgs == {<<"test.json">>, <<"multiple_scenes.json">>, <<"broken.json">>}
SceneArgs == {<<0>>, <<2>>}
EffectArgs == {<<0>>, <<2>>}
PaletteArgs == {<<"B">>}
DissolveArgs == {<<-1>>}
SpeedArgs == {<<250>>}
BrightnessArgs == {<<128>>}
\* /palette/{P}/{C}: P is the second component of the address, C the digits
\* of the third
PaletteMessages ==
    { [P |-> "A", C |-> <<0>>, args |-> <<300, -5, 7>>],
      [P |-> "F", C |-> <<0>>, args |-> <<1, 2, 3>>] }

Task(handler, address, args) ==
    [handler |-> handler, args |-> <<address>> \o args]

\* self.executor.submit(self._safe_handler_call, ...) inside the try of the
\* wrapper and of _handle_palette_message: the task is queued, or, the
\* executor shut down, submit raises RuntimeError and the except clause
\* counts the error
SubmitTask(task) ==
    IF executor_open
    THEN /\ pending' = Append(pending, task)
         /\ error_count' = error_count
    ELSE /\ pending' = pending
         /\ error_count' = error_count + 1

\* the wrapper of _create_wrapper
Submit(handler, address, args) ==
    /\ message_count < MaxMessages
    /\ message_count' = message_count + 1
    /\ SubmitTask(Task(handler, address, args))
    /\ last' = Op("receive", <<address>>, TRUE)
    /\ UNCHANGED <<locks, calls, outVars, stopVars, smVars, cfgVars, engineVars, now, loopVars, frame_out,
                   autoload>>

ReceiveLoadJson == \E a \in LoadArgs : Submit("load_json", "/load_json", a)
ReceiveChangeScene == \E a \in SceneArgs : Submit("change_scene", "/change_scene", a)
ReceiveChangeEffect == \E a \in EffectArgs : Submit("change_effect", "/change_effect", a)
ReceiveChangePalette == \E a \in PaletteArgs : Submit("change_palette", "/change_palette", a)
ReceiveSetDissolveTime == \E a \in DissolveArgs : Submit("set_dissolve_time", "/set_dissolve_time", a)
ReceiveSetSpeedPercent == \E a \in SpeedArgs : Submit("set_speed_percent", "/set_speed_percent", a)
ReceiveMasterBrightness == \E a \in BrightnessArgs : Submit("master_brightness", "/master_brightness", a)

\* re.match(r"/palette/([A-E])/([0-5])", address): a prefix match
PaletteMatch(m) ==
    /\ m.P \in {"A", "B", "C", "D", "E"}
    /\ Len(m.C) >= 1
    /\ m.C[1] \in 0..5

\* OSCHandler._handle_palette_message
ReceivePaletteFrom(M) ==
    \E m \in M :
        /\ message_count < MaxMessages
        /\ message_count' = message_count + 1
        /\ IF PaletteMatch(m) /\ Len(m.args) >= 3
           THEN SubmitTask(
                    Task("palette_color", <<"/palette", m.P, m.C>>,
                         << m.P, m.C[1],
                            << Clamp(0, 255, m.args[1]), Clamp(0, 255, m.args[2]),
                               Clamp(0, 255, m.args[3]) >> >>))
           ELSE UNCHANGED <<pending, error_count>>
        /\ last' = Op("receive", <<"/palette", m.P, m.C>>, PaletteMatch(m))
        /\ UNCHANGED <<locks, calls, outVars, stopVars, smVars, cfgVars, engineVars, now, loopVars, frame_out,
                       autoload>>

ReceivePalette == ReceivePaletteFrom(PaletteMessages)

(***************************************************************************)
(* The executor's workers: OSCHandler._safe_handler_call runs one of the   *)
(* tasks the MaxWorkers workers hold; the engine lock makes the handler    *)
(* one step.                                                               *)
(***************************************************************************)
Runnable(handler) ==
    {i \in 1..Min(Len(pending), MaxWorkers) : pending[i].handler = handler}

Remove(q, i) == SubSeq(q, 1, i - 1) \o SubSeq(q, i + 1, Len(q))

\* the positional parameters a handler declares after self; 0 stands for
\* (address, *args)
HandlerParams(handler) == IF handler = "palette_color" THEN 3 ELSE 0

\* handler(osc_address, *args) binds, or raises TypeError
CallBinds(handler, nargs) ==
    IF HandlerParams(handler) = 0 THEN nargs >= 1
    ELSE nargs = HandlerParams(handler)

\* AnimationEngine.handle_load_json: the file named by args[0]
handle_load_json(sm, file) ==
    LET first == IF file.hint THEN load_multiple_scenes_from_file(sm, file)
                 ELSE [ret |-> FALSE, sm |-> sm]
        second == IF ~first.ret THEN load_scene_from_file(first.sm, file)
                  ELSE first
        third == IF ~second.ret THEN load_multiple_scenes_from_file(second.sm, file)
                 ELSE second
    IN  third

RunLoadJson ==
    \E i \in Runnable("load_json") :
        LET a == pending[i].args
            r == handle_load_json(SM, Files[a[2]])
        IN  /\ pending' = Remove(pending, i)
            /\ SetSM(r.sm)
            /\ last' = Op("load_json", Tail(a), r.ret)
            /\ UNCHANGED <<locks, calls, outVars, stopVars, cfgVars, engineVars, now, loopVars, frame_out,
                           message_count, error_count, autoload>>

\* AnimationEngine.handle_change_scene
RunChangeScene ==
    \E i \in Runnable("change_scene") :
        LET a == pending[i].args
            r == switch_scene(SM, a[2])
        IN  /\ pending' = Remove(pending, i)
            /\ SetSM(r.sm)
            /\ last' = Op("switch_scene", Tail(a), r.ret)
            /\ UNCHANGED <<locks, calls, outVars, stopVars, cfgVars, engineVars, now, loopVars, frame_out,
                           message_count, error_count, autoload>>

\* AnimationEngine.handle_change_effect
RunChangeEffect ==
    \E i \in Runnable("change_effect") :
        LET a == pending[i].args
            r == set_effect(SM, transition_config, enabled, a[2], now)
        IN  /\ pending' = Remove(pending, i)
            /\ SetSM(r.sm)
            /\ last' = Op("set_effect", Tail(a), r.ret)
            /\ UNCHANGED <<locks, calls, outVars, stopVars, cfgVars, engineVars, now, loopVars, frame_out,
                           message_count, error_count, autoload>>

\* AnimationEngine.handle_change_palette
RunChangePalette ==
    \E i \in Runnable("change_palette") :
        LET a == pending[i].args
            r == set_palette(SM, transition_config, enabled, a[2], now)
        IN  /\ pending' = Remove(pending, i)
            /\ SetSM(r.sm)
            /\ last' = Op("set_palette", Tail(a), r.ret)
            /\ UNCHANGED <<locks, calls, outVars, stopVars, cfgVars, engineVars, now, loopVars, frame_out,
                           message_count, error_count, autoload>>

\* a _safe_handler_call that lets the error go uncounted
SafeCallErrors_uncounted(handler, nargs) == 0

\* _safe_handler_call: except Exception: self.error_count += 1, for the
\* exception the call of the handler raises
SafeCallErrors(handler, nargs) == IF CallBinds(handler, nargs) THEN 0 ELSE 1

\* _safe_handler_call(self.palette_handler, address, palette_id, color_id, rgb)
\* calling AnimationEngine.handle_palette_color(palette_id, color_id, rgb)
RunPaletteColor ==
    \E i \in Runnable("palette_color") :
        LET a == pending[i].args
            binds == CallBinds("palette_color", Len(a))
            r == IF binds THEN update_palette_color(SM, a[1], a[2], a[3])
                 ELSE [ret |-> FALSE, sm |-> SM]
        IN  /\ pending' = Remove(pending, i)
            /\ SetSM(r.sm)
            /\ error_count' = error_count + SafeCallErrors("palette_color", Len(a))
            /\ last' = Op("palette_color", Tail(a), r.ret)
            /\ UNCHANGED <<locks, calls, outVars, stopVars, cfgVars, engineVars, now, loopVars, frame_out,
                           message_count, autoload>>

\* AnimationEngine.handle_set_dissolve_time
RunSetDissolveTime ==
    \E i \in Runnable("set_dissolve_time") :
        LET a == pending[i].args
        IN  /\ pending' = Remove(pending, i)
            /\ dissolve_time' = Max(0, a[2])
            /\ last' = Op("set_dissolve_time", Tail(a), TRUE)
            /\ UNCHANGED <<locks, calls, outVars, stopVars, smVars, cfgVars, master_brightness, speed_percent, now,
                           loopVars, frame_out, message_count, error_count, autoload>>

\* AnimationEngine.handle_set_speed_percent
RunSetSpeedPercent ==
    \E i \in Runnable("set_speed_percent") :
        LET a == pending[i].args
        IN  /\ pending' = Remove(pending, i)
            /\ speed_percent' = Clamp(0, 200, a[2])
            /\ last' = Op("set_speed_percent", Tail(a), TRUE)
            /\ UNCHANGED <<locks, calls, outVars, stopVars, smVars, cfgVars, master_brightness, dissolve_time, now,
                           loopVars, frame_out, message_count, error_count, autoload>>

\* AnimationEngine.handle_master_brightness
RunMasterBrightness ==
    \E i \in Runnable("master_brightness") :
        LET a == pending[i].args
        IN  /\ pending' = Remove(pending, i)
            /\ master_brightness' = Clamp(0, 255, a[2])
            /\ last' = Op("master_brightness", Tail(a), TRUE)
            /\ UNCHANGED <<locks, calls, outVars, stopVars, smVars, cfgVars, speed_percent, dissolve_time, now,
                           loopVars, frame_out, message_count, error_count, autoload>>

Next ==
    \/ AdvanceClock
    \/ StartAutoLoad
    \/ TickSnapshot
    \/ TickUpdate
    \/ TickOutput
    \/ ReceiveLoadJson
    \/ ReceiveChangeScene
    \/ ReceiveChangeEffect
    \/ ReceiveChangePalette
    \/ ReceiveSetDissolveTime
    \/ ReceiveSetSpeedPercent
    \/ ReceiveMasterBrightness
    \/ ReceivePalette
    \/ RunLoadJson
    \/ RunChangeScene
    \/ RunChangeEffect
    \/ RunChangePalette
    \/ RunPaletteColor
    \/ RunSetDissolveTime
    \/ RunSetSpeedPercent
    \/ RunMasterBrightness

Spec == Init /\ [][Next]_vars

(***************************************************************************)
(* The scene-selection part of the control plane alone: the frame loop,    *)
(* the clock, and the handlers that load, switch and change selections.    *)
(***************************************************************************)
TransitionNext ==
    \/ AdvanceClock
    \/ StartAutoLoad
    \/ TickSnapshot
    \/ TickUpdate
    \/ TickOutput
    \/ ReceiveLoadJson
    \/ ReceiveChangeScene
    \/ ReceiveChangeEffect
    \/ ReceiveChangePalette
    \/ RunLoadJson
    \/ RunChangeScene
    \/ RunChangeEffect
    \/ RunChangePalette

TransitionSpec == Init /\ [][TransitionNext]_vars

\* The engine with the requests that start, restart or redirect a transition:
\* the scenes are those the start-up load finds.
RequestNext ==
    \/ AdvanceClock
    \/ StartAutoLoad
    \/ TickSnapshot
    \/ TickUpdate
    \/ TickOutput
    \/ ReceiveChangeScene
    \/ ReceiveChangeEffect
    \/ ReceiveChangePalette
    \/ RunChangeScene
    \/ RunChangeEffect
    \/ RunChangePalette

RequestSpec == Init /\ [][RequestNext]_vars

(***************************************************************************)
(* One effect change at t = 0 and then the frame loop run at given         *)
(* instants: a tick (snapshot, update_animation, get_led_output) at each   *)
(* instant and nothing in between.                                         *)
(***************************************************************************)
Instants == {50, 100, 120, 150, 200, 250, 300}

NextInstant(t) == \A u \in Instants : u > now => t <= u

TimelineStart == autoload /\ StartAutoLoad
TimelineRequest == ~autoload /\ message_count = 0 /\ ReceiveChangeEffect
TimelineRun == RunChangeEffect
TimelineClock ==
    /\ last.op \in {"set_effect", "get_led_output"}
    /\ \E t \in Instants : t > now /\ NextInstant(t) /\ ClockTo(t)
TimelineSnapshot == last.op = "clock" /\ TickSnapshot
TimelineUpdate == TickUpdate
TimelineOutput == TickOutput
\* the loop keeps running after the last instant
TimelineIdle ==
    /\ last.op = "get_led_output"
    /\ \A t \in Instants : t <= now
    /\ TickSnapshot

TimelineNext ==
    \/ TimelineStart
    \/ TimelineRequest
    \/ TimelineRun
    \/ TimelineClock
    \/ TimelineSnapshot
    \/ TimelineUpdate
    \/ TimelineOutput
    \/ TimelineIdle

TimelineSpec == Init /\ [][TimelineNext]_vars

\* the AnimationLoop thread and the workers keep running
TimelineFairSpec == TimelineSpec /\ WF_vars(TimelineNext)

\* The palette messages alone: addresses of the shape /palette/{P}/{C}, well
\* formed or not, with enough arguments or not.
PaletteAddresses ==
    { [P |-> "A", C |-> <<0>>, args |-> <<300, -5, 7>>],
      [P |-> "A", C |-> <<1, 2>>, args |-> <<1, 2, 3>>],
      [P |-> "F", C |-> <<0>>, args |-> <<1, 2, 3>>],
      [P |-> "AB", C |-> <<0>>, args |-> <<1, 2, 3>>],
      [P |-> "B", C |-> <<7>>, args |-> <<1, 2, 3>>],
      [P |-> "B", C |-> <<5>>, args |-> <<1, 2>>] }

PaletteNext ==
    \/ StartAutoLoad
    \/ ReceivePaletteFrom(PaletteAddresses)
    \/ RunPaletteColor

PaletteSpec == Init /\ [][PaletteNext]_vars

(***************************************************************************)
(* Control messages as they arrive: any address, any number of arguments,  *)
(* each argument an OSC int, float or string.  An argument is a record     *)
(* [t, n, s]: t = "i" with the integer n, t = "f" with the float n / 10,   *)
(* t = "s" with the string s.                                               *)
(***************************************************************************)
IntArg(n) == [t |-> "i", n |-> n, s |-> ""]
FloatArg(tenths) == [t |-> "f", n |-> tenths, s |-> ""]
StrArg(s) == [t |-> "s", n |-> 0, s |-> s]

\* the strings of this model that int() parses
NumericStrings == [x \in {"5"} |-> 5]

\* int(args[0]): truncates a float, parses a numeric string, raises ValueError
\* for any other string
PyInt(a) ==
    CASE a.t = "i" -> [ok |-> TRUE, val |-> a.n]
      [] a.t = "f" -> [ok |-> TRUE, val |-> TruncDiv(a.n, 10)]
      [] OTHER -> IF a.s \in DOMAIN NumericStrings
                  THEN [ok |-> TRUE, val |-> NumericStrings[a.s]]
                  ELSE [ok |-> FALSE, val |-> 0]

\* str(args[0])
PyStr(a) ==
    CASE a.t = "i" -> ToString(a.n)
      [] a.t = "f" -> ToString(TruncDiv(a.n, 10)) \o "." \o
                      ToString((IF a.n >= 0 THEN a.n ELSE -a.n) % 10)
      [] OTHER -> a.s

\* the addresses AnimationEngine._setup_osc_handlers registers, and the
\* handler of each
RegisteredHandlers ==
    [x \in {"/load_json", "/change_scene", "/change_effect", "/change_palette",
            "/set_dissolve_time", "/set_speed_percent", "/master_brightness"} |->
        CASE x = "/load_json" -> "load_json"
          [] x = "/change_scene" -> "change_scene"
          [] x = "/change_effect" -> "change_effect"
          [] x = "/change_palette" -> "change_palette"
          [] x = "/set_dissolve_time" -> "set_dissolve_time"
          [] x = "/set_speed_percent" -> "set_speed_percent"
          [] OTHER -> "master_brightness"]

IntHandlers == {"change_scene", "change_effect", "set_dissolve_time",
                "set_speed_percent", "master_brightness"}

\* the dispatcher: the wrapper of a registered address submits the handler to
\* the executor, any other address goes to _handle_unknown_message, which logs
ReceiveRawFrom(M) ==
    \E m \in M :
        /\ IF m.address \in DOMAIN RegisteredHandlers
           THEN /\ message_count < MaxMessages
                /\ message_count' = message_count + 1
                /\ SubmitTask([handler |-> RegisteredHandlers[m.address],
                               args |-> <<m.address>> \o m.args])
           ELSE UNCHANGED <<message_count, pending, error_count>>
        /\ last' = Op("receive", <<m.address>> \o m.args,
                      m.address \in DOMAIN RegisteredHandlers)
        /\ UNCHANGED <<locks, calls, outVars, stopVars, smVars, cfgVars, engineVars, now, loopVars,
                       frame_out, autoload>>

\* the handlers of AnimationEngine on the arguments as they arrived: the
\* state of the SceneManager and the three engine fields after the call
HandleRaw(handler, args) ==
    LET same == [ret |-> FALSE, sm |-> SM, master_brightness |-> master_brightness,
                 speed_percent |-> speed_percent, dissolve_time |-> dissolve_time]
        v == PyInt(args[1])
        path == PyStr(args[1])
        with(r) == [same EXCEPT !.ret = r.ret, !.sm = r.sm]
    IN  IF Len(args) = 0 THEN same
        ELSE IF handler \in IntHandlers /\ ~v.ok THEN same
        ELSE CASE handler = "load_json" ->
                    with(handle_load_json(SM,
                        Files[IF path \in FileNames THEN path ELSE "missing.json"]))
               [] handler = "change_scene" -> with(switch_scene(SM, v.val))
               [] handler = "change_effect" ->
                    with(set_effect(SM, transition_config, enabled, v.val, now))
               [] handler = "change_palette" ->
                    with(set_palette(SM, transition_config, enabled, path, now))
               [] handler = "set_dissolve_time" ->
                    [same EXCEPT !.ret = TRUE, !.dissolve_time = Max(0, v.val)]
               [] handler = "set_speed_percent" ->
                    [same EXCEPT !.ret = TRUE, !.speed_percent = Clamp(0, 200, v.val)]
               [] OTHER ->
                    [same EXCEPT !.ret = TRUE, !.master_brightness = Clamp(0, 255, v.val)]

\* _safe_handler_call(handler, osc_address, *args) on a worker
RunRaw ==
    \E i \in 1..Min(Len(pending), MaxWorkers) :
        LET task == pending[i]
            r == HandleRaw(task.handler, Tail(task.args))
        IN  /\ pending' = Remove(pending, i)
            /\ SetSM(r.sm)
            /\ master_brightness' = r.master_brightness
            /\ speed_percent' = r.speed_percent
            /\ dissolve_time' = r.dissolve_time
            /\ last' = Op(task.handler, Tail(task.args), r.ret)
            /\ UNCHANGED <<locks, calls, outVars, stopVars, cfgVars, now, loopVars, frame_out,
                           message_count, error_count, autoload>>

\* messages the table of addresses does not list: an unregistered address, no
\* argument, one argument too many, a float or a string for an integer
MalformedMessages ==
    { [address |-> "/blackout", args |-> <<IntArg(1)>>],
      [address |-> "/master_brightness", args |-> << >>],
      [address |-> "/change_scene", args |-> << >>],
      [address |-> "/set_speed_percent", args |-> <<IntArg(50), IntArg(60)>>],
      [address |-> "/change_scene", args |-> <<IntArg(2), IntArg(1)>>],
      [address |-> "/change_palette", args |-> <<StrArg("B"), StrArg("A")>>],
      [address |-> "/master_brightness", args |-> <<FloatArg(37)>>],
      [address |-> "/set_dissolve_time", args |-> <<StrArg("soon")>>],
      [address |-> "/set_dissolve_time", args |-> <<StrArg("5")>>],
      [address |-> "/change_effect", args |-> <<StrArg("two")>>] }

WellFormedMessages ==
    { [address |-> "/change_effect", args |-> <<IntArg(2)>>],
      [address |-> "/load_json", args |-> <<StrArg("multiple_scenes.json")>>] }

\* /master_brightness, /set_speed_percent and /set_dissolve_time with one
\* integer each: below, at, between, and above the bounds
FieldValues == {-1, 0, 128, 200, 201, 255, 256}

FieldMessages ==
    { [address |-> x, args |-> <<IntArg(n)>>] :
        x \in {"/master_brightness", "/set_speed_percent", "/set_dissolve_time"},
        n \in FieldValues }

FieldNext ==
    \/ ReceiveRawFrom(FieldMessages)
    \/ RunRaw

FieldSpec == Init /\ [][FieldNext]_vars

RawNext ==
    \/ StartAutoLoad
    \/ ReceiveRawFrom(MalformedMessages \cup WellFormedMessages)
    \/ RunRaw

RawSpec == Init /\ [][RawNext]_vars

\* The frame loop over moving segments: the scene of motion.json is loaded,
\* the speed is set, frames of either length are played.
MotionMessages ==
    { [address |-> "/load_json", args |-> <<StrArg("motion.json")>>],
      [address |-> "/set_speed_percent", args |-> <<IntArg(0)>>],
      [address |-> "/set_speed_percent", args |-> <<IntArg(100)>>] }

MotionNext ==
    \/ ReceiveRawFrom(MotionMessages)
    \/ RunRaw
    \/ TickSnapshot
    \/ TickUpdateBy(FrameDeltas)
    \/ TickOutput

MotionSpec == Init /\ [][MotionNext]_vars

(***************************************************************************)
(* The operations of SceneManager called directly, each one step under     *)
(* SceneManager._lock.                                                     *)
(***************************************************************************)
\* Scene.switch_effect
switch_effect(scene, effect_id, palette) ==
    LET s1 == IF effect_id \in DOMAIN scene.effects
              THEN [scene EXCEPT !.current_effect_id = effect_id] ELSE scene
    IN  IF ~FalsyStr(palette) /\ palette \in DOMAIN scene.palettes
        THEN [s1 EXCEPT !.current_palette = palette] ELSE s1

\* SceneManager.set_effect_palette
set_effect_palette(sm, scene_id, effect_id, palette_id) ==
    IF scene_id \notin DOMAIN sm.scenes THEN [ret |-> FALSE, sm |-> sm]
    ELSE [ret |-> TRUE,
          sm |-> [sm EXCEPT !.scenes[scene_id] =
                     switch_effect(@, effect_id, palette_id)]]

\* the arguments of the direct calls
ApiSceneIds == {0, 1, 2, 7}
ApiEffectIds == {0, 1, 2, 9}
ApiPaletteIds == {"A", "B", "Z"}
ApiColorIds == {0, 6}
ApiRgb == {<<1, 2, 3>>}
\* the arguments of set_effect_palette: scene, effect, palette
ApiSelections == {1, 7} \X {2, 9} \X {"B", "Z"}
ApiFiles == {"multiple_scenes.json", "broken.json"}
LoadFiles == FileNames \ {"motion.json", "glare.json"}

\* what a direct call leaves alone besides the SceneManager
apiRest == <<cfgVars, engineVars, now, loopVars, oscVars, locks, outVars,
            stopVars>>

ApiCall(name, args, r) ==
    /\ calls < MaxCalls
    /\ calls' = calls + 1
    /\ SetSM(r.sm)
    /\ last' = Op(name, args, r.ret)
    /\ UNCHANGED <<apiRest, frame_out>>

ApiLoadSingle(F) ==
    \E f \in F : ApiCall("load_scene_from_file", <<f>>,
                         load_scene_from_file(SM, Files[f]))
ApiLoadMultiple(F) ==
    \E f \in F : ApiCall("load_multiple_scenes_from_file", <<f>>,
                         load_multiple_scenes_from_file(SM, Files[f]))
ApiLoadJson(F) ==
    \E f \in F : ApiCall("load_json", <<f>>, handle_load_json(SM, Files[f]))
ApiSwitchScene ==
    \E id \in ApiSceneIds : ApiCall("switch_scene", <<id>>, switch_scene(SM, id))
ApiSetEffectOf(ids) ==
    \E e \in ids :
        ApiCall("set_effect", <<e>>,
                set_effect(SM, transition_config, enabled, e, now))
ApiSetEffect == ApiSetEffectOf(ApiEffectIds)
ApiSetPalette ==
    \E p \in ApiPaletteIds :
        ApiCall("set_palette", <<p>>,
                set_palette(SM, transition_config, enabled, p, now))
ApiUpdatePaletteColorOf(ps, cs, rgbs) ==
    \E p \in ps, c \in cs, rgb \in rgbs :
        ApiCall("update_palette_color", <<p, c, rgb>>,
                update_palette_color(SM, p, c, rgb))
ApiUpdatePaletteColor ==
    ApiUpdatePaletteColorOf(ApiPaletteIds, ApiColorIds, ApiRgb)
ApiSetEffectPalette ==
    \E a \in ApiSelections :
        ApiCall("set_effect_palette", a,
                set_effect_palette(SM, a[1], a[2], a[3]))
ApiUpdateAnimation ==
    ApiCall("update_animation", << >>,
            [ret |-> TRUE, sm |-> update_animation(SM, now, 20)])
ApiLoadScene(dicts) ==
    \E d \in dicts : ApiCall("load_scene", <<d>>, load_scene(SM, SegmentScene(d)))
ApiLoadOrder ==
    \E seq \in OrderSeqs :
        ApiCall("load_scene", <<seq>>, load_scene(SM, OrderScene(seq)))
ApiUpdateAnimationBy(deltas) ==
    \E delta_time \in deltas :
        ApiCall("update_animation", <<delta_time>>,
                [ret |-> TRUE, sm |-> update_animation(SM, now, delta_time)])
ApiGetLedOutput ==
    LET r == get_led_output(SM)
    IN  /\ calls < MaxCalls
        /\ calls' = calls + 1
        /\ SetSM(r.sm)
        /\ frame_out' = r.frame
        /\ last' = Op("get_led_output", << >>, TRUE)
        /\ UNCHANGED apiRest

ApiNext ==
    \/ ApiLoadJson(ApiFiles)
    \/ ApiSwitchScene
    \/ ApiSetEffect
    \/ ApiSetPalette
    \/ ApiUpdatePaletteColor
    \/ ApiSetEffectPalette
    \/ ApiUpdateAnimation
    \/ ApiGetLedOutput

ApiSpec == Init /\ [][ApiNext]_vars

\* loads of every kind of file, and the operations on the active scene
LoadNext ==
    \/ ApiLoadSingle(LoadFiles)
    \/ ApiLoadMultiple(LoadFiles)
    \/ ApiLoadJson(LoadFiles)
    \/ ApiSetEffect
    \/ ApiSetPalette
    \/ ApiUpdatePaletteColor
    \/ ApiUpdateAnimation
    \/ ApiGetLedOutput

LoadSpec == Init /\ [][LoadNext]_vars

\* One segment under update_position: a scene with a segment of
\* SegmentDicts is loaded and animated by frames of 0, 20 or 40 ms.
SegmentDeltas == {0, 20, 40}

SegmentNext ==
    \/ ApiLoadScene(SegmentDicts)
    \/ ApiUpdateAnimationBy(SegmentDeltas)

SegmentSpec == Init /\ [][SegmentNext]_vars

\* Segments built from lists: a scene whose segment is built from the lists
\* of ListDicts is loaded and rendered.
ApiLoadLists ==
    \E d \in ListDicts :
        ApiCall("load_scene", <<d>>, load_scene(SM, ListScene(d)))

ListNext ==
    \/ ApiLoadLists
    \/ ApiGetLedOutput

ListSpec == Init /\ [][ListNext]_vars

\* Fading segments: a scene whose segment is built from an entry of
\* FadeDicts is loaded and rendered.
ApiLoadFade ==
    \E d \in FadeDicts :
        ApiCall("load_scene", <<d>>, load_scene(SM, FadeScene(d)))

FadeNext ==
    \/ ApiLoadFade
    \/ ApiGetLedOutput

FadeSpec == Init /\ [][FadeNext]_vars

\* One reflecting segment under update_position: a scene with a segment of
\* ReflectDicts is loaded and animated by frames of 20 ms and of 0.95 s.
ReflectDicts ==
    [move_speed : {-50, 0, 10, 50}, move_range : {<<0, 9>>, <<1, 3>>},
     initial_position : {0, 1, 3, 5}, current_position : {0},
     is_edge_reflect : {TRUE}]

ReflectDeltas == {20, 950}

ReflectNext ==
    \/ ApiLoadScene(ReflectDicts)
    \/ ApiUpdateAnimationBy(ReflectDeltas)

ReflectSpec == Init /\ [][ReflectNext]_vars

\* update_animation called with frames of 20 or 40 ms on the scenes of
\* advance.json, between effect and palette requests and while the clock
\* carries a transition through its phases; MaxEffectTime bounds the time the
\* effects accumulate.
MaxEffectTime == 160
AdvanceDeltas == {20, 40}

AdvanceUpdate ==
    \E delta_time \in AdvanceDeltas :
        /\ \A id \in DOMAIN scenes : \A e \in DOMAIN scenes[id].effects :
               scenes[id].effects[e].time + delta_time <= MaxEffectTime
        /\ SetSM(update_animation(SM, now, delta_time))
        /\ last' = Op("update_animation", <<delta_time>>, TRUE)
        /\ UNCHANGED <<calls, apiRest, frame_out>>

AdvanceNext ==
    \/ ApiLoadJson({"advance.json"})
    \/ active_scene_id \in DOMAIN scenes /\ ApiSetEffectOf({2})
    \/ active_scene_id \in DOMAIN scenes /\ ApiSetPalette
    \/ active_scene_id \in DOMAIN scenes /\ ApiSwitchScene
    \/ active_scene_id \in DOMAIN scenes /\ AdvanceClock
    \/ active_scene_id \in DOMAIN scenes /\ AdvanceUpdate

AdvanceSpec == Init /\ [][AdvanceNext]_vars

\* The dispatch of control messages with the engine running and stopping:
\* palette messages, whose handler call raises, master-brightness messages,
\* whose handler returns, and the stop that shuts the executor down.
HandlerNext ==
    \/ ReceivePaletteFrom(PaletteAddresses)
    \/ RunPaletteColor
    \/ ReceiveMasterBrightness
    \/ RunMasterBrightness
    \/ StopBegin
    \/ StopJoin
    \/ StopOsc
    \/ StopLed

HandlerSpec == Init /\ [][HandlerNext]_vars

\* Delivery: one to three destinations, with or without a client, and the
\* frame loop sending MaxFrames frames, each send delivered or failing.
DestinationLists ==
    UNION { [1..n -> {Client(TRUE), Client(FALSE)}] : n \in 1..3 }

SendInit == \E destinations \in DestinationLists : InitWith(destinations)

SendNext ==
    \/ FramesCounted < MaxFrames /\ TickSnapshot
    \/ TickUpdate
    \/ TickOutput
    \/ SendNextClient
    \/ SendMessage

SendSpec == SendInit /\ [][SendNext]_vars

\* Scene switches during a transition: effect and palette changes are
\* requested and run only while scene 1, the first scene loaded, is active,
\* so every transition is one requested on scene 1; scene switches to the
\* scenes 0 and 2 arrive at any time.
SwitchNext ==
    \/ AdvanceClock
    \/ StartAutoLoad
    \/ TickSnapshot
    \/ TickUpdate
    \/ TickOutput
    \/ active_scene_id = 1 /\ ReceiveChangeEffect
    \/ active_scene_id = 1 /\ RunChangeEffect
    \/ active_scene_id = 1 /\ ReceiveChangePalette
    \/ active_scene_id = 1 /\ RunChangePalette
    \/ ReceiveChangeScene
    \/ RunChangeScene

SwitchSpec == Init /\ [][SwitchNext]_vars

\* Requests that follow one another: after the start-up load, /change_effect
\* 2 and /change_palette B arrive in any order within the first
\* RequestsUntil ms, at whatever phase of the transition the earlier one
\* started; the clock then runs on to Horizon, which leaves the last
\* transition the time of its three phases, and the loop and the workers
\* are scheduled again and again.
RequestsUntil == 250
Horizon == 600

FollowClock ==
    /\ ClockObserved
    /\ \E d \in ClockSteps : now + d <= Horizon /\ ClockTo(now + d)
FollowLoop == TickSnapshot \/ TickUpdate \/ TickOutput
FollowReceive ==
    /\ ~autoload
    /\ now <= RequestsUntil
    /\ \/ \E a \in EffectArgs \ {<<0>>} :
            Submit("change_effect", "/change_effect", a)
       \/ ReceiveChangePalette
FollowRun == RunChangeEffect \/ RunChangePalette

FollowNext ==
    \/ StartAutoLoad
    \/ FollowClock
    \/ FollowLoop
    \/ FollowReceive
    \/ FollowRun

FollowSpec == Init /\ [][FollowNext]_vars

\* the loop's position moves on: under FollowNext the steps that change pc
\* are the steps of FollowLoop, and one is possible at every position
LoopAdvances ==
    pc' = CASE pc = "sleep" -> "update"
            [] pc = "update" -> "output"
            [] OTHER -> "sleep"

FollowFairSpec ==
    FollowSpec /\ WF_vars(FollowClock) /\ WF_pc(LoopAdvances) /\ WF_vars(FollowRun)

\* Starting: AnimationEngine.start launches the loop thread, sets running
\* and tries its default files; the loop ticks; control messages arrive;
\* stop is called once start has returned.
StartNext ==
    \/ StartThread
    \/ StartRunning
    \/ running /\ StartAutoLoad
    \/ TickSnapshot
    \/ TickUpdate
    \/ TickOutput
    \/ LoopExit
    \/ ReceiveMasterBrightness
    \/ RunMasterBrightness
    \/ ~autoload /\ StopBegin
    \/ StopJoin
    \/ StopOsc
    \/ StopLed

StartSpec == StartInit /\ [][StartNext]_vars

\* Stopping: the frame loop delivering to its destinations while
\* AnimationEngine.stop runs; the loop thread and the stopping thread are
\* each scheduled again and again.
StopLoop ==
    \/ FramesCounted < MaxFrames /\ TickSnapshot
    \/ TickUpdate
    \/ TickOutput
    \/ SendNextClient
    \/ SendMessage
    \/ LoopExit

StopCall ==
    \/ StopBegin
    \/ StopJoin
    \/ StopOsc
    \/ StopLed

StopNext == StopLoop \/ StopCall

StopSpec == SendInit /\ [][StopNext]_vars

StopFairSpec == StopSpec /\ WF_vars(StopLoop) /\ WF_vars(StopCall)

\* The frames: the scene of glare.json, palette writes with channels outside
\* 0..255, effect changes with and without a transition, master brightness
\* 0, 128 and 255, and the frame loop.
FrameFiles == {"glare.json"}
FrameRgb == {<<300, -5, 7>>}
FrameMessages ==
    { [address |-> "/master_brightness", args |-> <<IntArg(128)>>] }

FrameNext ==
    \/ ApiLoadJson(FrameFiles)
    \/ ApiUpdatePaletteColorOf({"A"}, {2}, FrameRgb)
    \/ ApiSetEffectOf({2})
    \/ AdvanceClock
    \/ TickSnapshot
    \/ TickUpdate
    \/ TickOutput
    \/ calls = 0 /\ ReceiveRawFrom(FrameMessages)
    \/ RunRaw

FrameSpec == Init /\ [][FrameNext]_vars

\* Master brightness alone: the scene of glare.json under the frame loop,
\* with /master_brightness 0, 128 and 155.
BrightnessMessages ==
    { [address |-> "/master_brightness", args |-> <<IntArg(n)>>] :
        n \in {0, 128, 155} }

BrightnessNext ==
    \/ ApiLoadJson(FrameFiles)
    \/ TickSnapshot
    \/ TickUpdate
    \/ TickOutput
    \/ ReceiveRawFrom(BrightnessMessages)
    \/ RunRaw

BrightnessSpec == Init /\ [][BrightnessNext]_vars

\* The wire: the scene of glare.json rendered, scaled by master brightness
\* 255 or 128 and delivered to one or two destinations.
WireDestinations == { <<Client(TRUE)>>, <<Client(TRUE), Client(TRUE)>> }

WireInit == \E destinations \in WireDestinations : InitWith(destinations)

WireNext ==
    \/ ApiLoadJson(FrameFiles)
    \/ FramesCounted < MaxFrames /\ TickSnapshot
    \/ TickUpdate
    \/ TickOutput
    \/ SendNextClient
    \/ SendMessage
    \/ calls = 0 /\ ReceiveRawFrom(FrameMessages)
    \/ RunRaw

WireSpec == WireInit /\ [][WireNext]_vars

\* Compositing: the same segments loaded in every order, and rendered.
OrderNext ==
    \/ ApiLoadOrder
    \/ ApiGetLedOutput

OrderSpec == Init /\ [][OrderNext]_vars

(***************************************************************************)
(* The locks.  Every SceneManager operation runs inside "with self._lock"  *)
(* (an RLock); a handler calls it inside "with self._lock" of the engine,  *)
(* the frame loop calls it holding no engine lock.                         *)
(***************************************************************************)
\* the operations of SceneManager the frame loop calls
LoopOps == {"update_animation", "get_led_output"}
\* the operations of SceneManager a handler (or another caller) calls
HandlerOps ==
    {"load_scene_from_file", "load_multiple_scenes_from_file", "switch_scene",
     "set_effect", "set_palette", "update_palette_color", "set_move_speed"}
\* the operations an operation calls while it runs
NestedOps(op) ==
    IF op \in {"set_effect", "set_palette"} THEN {"start_pattern_transition"}
    ELSE {}
\* the operations whose body is inside "with self._lock"
LockedOps == LoopOps \cup HandlerOps \cup {"start_pattern_transition"}

\* UsesLock as it would be if get_led_output did not take the lock
UsesLock_output_unlocked(op) == op \in LockedOps \ {"get_led_output"}

UsesLock(op) == op \in LockedOps

nonLockVars == <<scenes, active_scene_id, pattern_transition, transition_config,
                 enabled, master_brightness, speed_percent, dissolve_time, now,
                 pc, snap, frame_out, sent, pending, message_count,
                 error_count, autoload, calls, led_output, send, running,
                 stop_pc, executor_open, last>>

\* a worker starts a handler: "with self._lock:" of the engine
LockHandlerBegin(t) ==
    /\ t \in Workers
    /\ locks.at[t] = "idle"
    /\ CanAcquire(locks.engine, t)
    /\ locks' = [locks EXCEPT !.engine = Acquire(@, t), !.at[t] = "handler"]
    /\ UNCHANGED nonLockVars

\* the handler leaves the engine's lock
LockHandlerEnd(t) ==
    /\ t \in Workers
    /\ locks.at[t] = "handler"
    /\ locks.stack[t] = << >>
    /\ locks' = [locks EXCEPT !.engine = Release(@), !.at[t] = "idle"]
    /\ UNCHANGED nonLockVars

\* _update_frame: "with self._lock:" around the snapshot
LockTickSnapshot ==
    /\ locks.at[LoopThread] = "idle"
    /\ CanAcquire(locks.engine, LoopThread)
    /\ locks' = [locks EXCEPT !.engine = Acquire(@, LoopThread),
                              !.at[LoopThread] = "snapshot"]
    /\ UNCHANGED nonLockVars

\* _update_frame: the snapshot is taken, the engine's lock released
LockTickRelease ==
    /\ locks.at[LoopThread] = "snapshot"
    /\ locks' = [locks EXCEPT !.engine = Release(@), !.at[LoopThread] = "update"]
    /\ UNCHANGED nonLockVars

\* thread t may call op now
MayCall(t, op) ==
    IF locks.stack[t] # << >>
    THEN op \in NestedOps(locks.stack[t][Len(locks.stack[t])])
    ELSE IF t = LoopThread
    THEN \/ locks.at[t] = "update" /\ op = "update_animation"
         \/ locks.at[t] = "output" /\ op = "get_led_output"
    ELSE IF t \in StatsCallers
    THEN locks.at[t] = "stats" /\ op = "get_led_output"
    ELSE locks.at[t] = "handler" /\ op \in HandlerOps

\* thread t enters operation op of SceneManager
LockEnter(t, op) ==
    /\ MayCall(t, op)
    /\ UsesLock(op) => CanAcquire(locks.sm, t)
    /\ locks' = [locks EXCEPT
           !.sm = IF UsesLock(op) THEN Acquire(@, t) ELSE @,
           !.stack[t] = Append(@, op)]
    /\ UNCHANGED nonLockVars

\* thread t returns from the operation it is in
LockLeave(t) ==
    /\ locks.stack[t] # << >>
    /\ LET st == locks.stack[t]
           op == st[Len(st)]
           rest == SubSeq(st, 1, Len(st) - 1)
       IN  locks' = [locks EXCEPT
               !.sm = IF UsesLock(op) THEN Release(@) ELSE @,
               !.stack[t] = rest,
               !.at[t] = IF t = LoopThread /\ rest = << >>
                         THEN (IF @ = "update" THEN "output" ELSE "leds")
                         ELSE IF t \in StatsCallers /\ rest = << >>
                         THEN "copied"
                         ELSE @]
    /\ UNCHANGED nonLockVars

\* _update_frame: "with self._lock: self.stats.active_leds = ...", once
\* get_led_output has returned, and _animation_loop: "with self._lock:
\* self.stats.frame_count += 1", once _update_frame has returned
LockTickStats ==
    /\ locks.at[LoopThread] \in {"leds", "sent"}
    /\ CanAcquire(locks.engine, LoopThread)
    /\ locks' = [locks EXCEPT
           !.engine = Acquire(@, LoopThread),
           !.at[LoopThread] = IF @ = "leds" THEN "active_leds"
                              ELSE "frame_count"]
    /\ UNCHANGED nonLockVars

\* the statistic is written, the engine's lock released
LockTickStatsRelease ==
    /\ locks.at[LoopThread] \in {"active_leds", "frame_count"}
    /\ locks' = [locks EXCEPT
           !.engine = Release(@),
           !.at[LoopThread] = IF @ = "active_leds" THEN "sent" ELSE "idle"]
    /\ UNCHANGED nonLockVars

LockNext ==
    \/ \E t \in Workers : LockHandlerBegin(t)
    \/ \E t \in Workers : LockHandlerEnd(t)
    \/ LockTickSnapshot
    \/ LockTickRelease
    \/ LockTickStats
    \/ LockTickStatsRelease
    \/ \E t \in Threads : \E op \in LockedOps : LockEnter(t, op)
    \/ \E t \in Threads : LockLeave(t)

LockSpec == Init /\ [][LockNext]_vars

\* get_stats: "with self._lock:" of the engine
LockStatsBegin(t) ==
    /\ t \in StatsCallers
    /\ locks.at[t] = "idle"
    /\ CanAcquire(locks.engine, t)
    /\ locks' = [locks EXCEPT !.engine = Acquire(@, t), !.at[t] = "stats"]
    /\ UNCHANGED nonLockVars

\* get_stats returns its copy, get_led_output having returned
LockStatsEnd(t) ==
    /\ t \in StatsCallers
    /\ locks.at[t] = "copied"
    /\ locks' = [locks EXCEPT !.engine = Release(@), !.at[t] = "idle"]
    /\ UNCHANGED nonLockVars

\* thread t calls operation op of SceneManager: it is now at the operation's
\* "with self._lock:"
LockCall(t, op) ==
    /\ locks.want[t] = "none"
    /\ MayCall(t, op)
    /\ locks' = [locks EXCEPT !.want[t] = op]
    /\ UNCHANGED nonLockVars

\* "with self._lock:" of the operation thread t has called lets it in
LockGranted(t) ==
    /\ locks.want[t] # "none"
    /\ UsesLock(locks.want[t]) => CanAcquire(locks.sm, t)
    /\ locks' = [locks EXCEPT
           !.sm = IF UsesLock(locks.want[t]) THEN Acquire(@, t) ELSE @,
           !.stack[t] = Append(@, locks.want[t]),
           !.want[t] = "none"]
    /\ UNCHANGED nonLockVars

\* a step of thread t
ThreadStep(t) ==
    \/ LockHandlerBegin(t)
    \/ locks.want[t] = "none" /\ LockHandlerEnd(t)
    \/ LockStatsBegin(t)
    \/ LockStatsEnd(t)
    \/ t = LoopThread /\ LockTickSnapshot
    \/ t = LoopThread /\ LockTickRelease
    \/ t = LoopThread /\ LockTickStats
    \/ t = LoopThread /\ LockTickStatsRelease
    \/ \E op \in LockedOps : LockCall(t, op)
    \/ LockGranted(t)
    \/ locks.want[t] = "none" /\ LockLeave(t)

\* The frame loop, the executor's workers in their handlers and the callers
\* of get_stats, interleaved step by step.
ProgressNext == \E t \in Threads : ThreadStep(t)

ProgressSpec == Init /\ [][ProgressNext]_vars

\* the thread that holds the lock thread t is waiting at, None when t is not
\* waiting: t waits at the "with self._lock:" of the operation it has
\* called, or at the engine's lock it is about to take (the frame loop for
\* its snapshot and its statistics, a worker for the handler it was handed,
\* a caller of get_stats)
BlockedOn(t) ==
    IF locks.want[t] # "none"
    THEN IF UsesLock(locks.want[t]) /\ ~CanAcquire(locks.sm, t)
         THEN locks.sm.owner ELSE None
    ELSE IF /\ locks.at[t] \in {"idle", "leds", "sent"}
            /\ ~CanAcquire(locks.engine, t)
    THEN locks.engine.owner
    ELSE None

(***************************************************************************)
(* Properties.                                                             *)
(***************************************************************************)
\* a scene is active: active_scene_id names a loaded scene
HasActive == active_scene_id \in DOMAIN scenes
ActiveScene == scenes[active_scene_id]
\* the composite of effect e under palette p of a scene, at full brightness
Render(scene, e, p) ==
    Scene_get_led_output([scene EXCEPT !.current_effect_id = e,
                                       !.current_palette = p])
\* the time since the current phase of the transition started
Elapsed == now - pattern_transition.phase_start_time
\* the transition's from and to selections are effects and palettes of the
\* active scene, whose id is not 0
TransitionInScene ==
    /\ HasActive
    /\ active_scene_id # 0
    /\ pattern_transition.from_effect_id \in DOMAIN ActiveScene.effects
    /\ pattern_transition.to_effect_id \in DOMAIN ActiveScene.effects
    /\ pattern_transition.from_palette_id \in DOMAIN ActiveScene.palettes
    /\ pattern_transition.to_palette_id \in DOMAIN ActiveScene.palettes
\* this step is a worker running a set_effect or set_palette request
ChangeRequestStep ==
    /\ last'.op \in {"set_effect", "set_palette"}
    /\ Len(pending') < Len(pending)

\* C1: once the handler task of a /palette/{P}/{C} message carrying R,G,B has
\* run while the active scene has a palette P, entry C of that palette is
\* [R,G,B] clamped to 0..255.
C1_PaletteWriteLands ==
    (/\ last.op = "palette_color"
     /\ HasActive
     /\ last.params[1] \in DOMAIN ActiveScene.palettes)
    => ActiveScene.palettes[last.params[1]][last.params[2] + 1] = last.params[3]

\* C2: while a transition is active and the active scene's current_effect_id
\* and current_palette have the values they had when it was requested,
\* update_animation and get_led_output leave them at those values, except in
\* the step that enters COMPLETED.
C2_SelectionsHeldUntilCommit ==
    [][ (/\ pattern_transition.is_active
         /\ HasActive
         /\ ActiveScene.current_effect_id = pattern_transition.from_effect_id
         /\ ActiveScene.current_palette = pattern_transition.from_palette_id
         /\ last'.op \in {"update_animation", "get_led_output"}
         /\ pattern_transition'.phase # "completed")
        => /\ scenes'[active_scene_id].current_effect_id
                = pattern_transition.from_effect_id
           /\ scenes'[active_scene_id].current_palette
                = pattern_transition.from_palette_id ]_vars

C4_SelectionsResolve ==
    \A s \in DOMAIN scenes :
        /\ scenes[s].current_effect_id \in DOMAIN scenes[s].effects
        /\ scenes[s].current_palette \in DOMAIN scenes[s].palettes

\* C5: the frame get_led_output returns has the led_count of the active
\* scene's current effect, or the configured LED count when no scene is active.
C5_FrameLength ==
    last.op = "get_led_output"
    => IF HasActive
       THEN ActiveScene.current_effect_id \in DOMAIN ActiveScene.effects
            => Len(frame_out)
                 = ActiveScene.effects[ActiveScene.current_effect_id].led_count
       ELSE Len(frame_out) = ConfigLedCount

\* C6: a transition started by set_effect(e), with no further request and the
\* frame loop running, eventually completes with the active scene's
\* current_effect_id equal to e, for every effect id e of the scene (0 too).
C6_TransitionReachesTarget ==
    \A a \in EffectArgs :
        (enabled /\ last.op = "set_effect" /\ last.params = a /\ last.ret)
        ~> (/\ ~pattern_transition.is_active
            /\ HasActive
            /\ ActiveScene.current_effect_id = a[1])

\* C7: a frame returned during FADE_OUT is the from-effect/from-palette
\* composite scaled by 1 - elapsed/fade_out_ms, elapsed being a time since the
\* phase started (at most the time elapsed by now); right after the request
\* it is at full brightness.
C7_FadeOutFrame ==
    (/\ last.op = "get_led_output"
     /\ pattern_transition.is_active
     /\ pattern_transition.phase = "fade_out"
     /\ TransitionInScene
     /\ Elapsed < pattern_transition.fade_out_ms)
    => \E e \in 0..Elapsed :
          frame_out = ScaleFrame(
              Render(ActiveScene, pattern_transition.from_effect_id,
                     pattern_transition.from_palette_id),
              Frac(pattern_transition.fade_out_ms - e,
                   pattern_transition.fade_out_ms))

\* C8: a frame returned during FADE_IN is the to-effect/to-palette composite
\* scaled by elapsed/fade_in_ms, elapsed being a time since the FADE_IN phase
\* started (at most the time elapsed by now): never a factor of an earlier
\* phase.
C8_FadeInFrame ==
    (/\ last.op = "get_led_output"
     /\ pattern_transition.is_active
     /\ pattern_transition.phase = "fade_in"
     /\ TransitionInScene
     /\ Elapsed < pattern_transition.fade_in_ms)
    => \E e \in 0..Elapsed :
          frame_out = ScaleFrame(
              Render(ActiveScene, pattern_transition.to_effect_id,
                     pattern_transition.to_palette_id),
              Frac(e, pattern_transition.fade_in_ms))

\* the transition of the timeline: requested at t = 0 with 100/50/100 ms
OnTimeline ==
    /\ enabled
    /\ pattern_transition.from_effect_id # None
    /\ pattern_transition.fade_out_ms = 100
    /\ pattern_transition.waiting_ms = 50
    /\ pattern_transition.fade_in_ms = 100
    /\ HasActive

\* C9: with 100/50/100 ms, an effect change at t = 0 and a tick at 50, 100,
\* 120, 150, 200, 250 and later: the frame at 50 is the prior effect at 0.5,
\* at 120 all black, at 200 the new effect at 0.5, and from 250 on the change
\* is committed and the frame is the new effect at full brightness.
C9_Timeline ==
    (OnTimeline /\ last.op = "get_led_output")
    => LET pt == pattern_transition
           half == [num |-> 1, den |-> 2]
           prior == Render(ActiveScene, pt.from_effect_id, pt.from_palette_id)
           new == Render(ActiveScene, pt.to_effect_id, pt.to_palette_id)
       IN  /\ now = 50 => frame_out = ScaleFrame(prior, half)
           /\ now = 120 => \A i \in 1..Len(frame_out) : frame_out[i] = <<0, 0, 0>>
           /\ now = 200 => frame_out = ScaleFrame(new, half)
           /\ now >= 250 => /\ ~pt.is_active
                            /\ pt.phase = "completed"
                            /\ ActiveScene.current_effect_id = pt.to_effect_id
                            /\ ActiveScene.current_palette = pt.to_palette_id
                            /\ frame_out = new

\* C9 witness: the frame of t = 200, half-way through the fade-in from effect 1
\* to effect 2 of scene 1.
C9_Witness ==
    /\ OnTimeline
    /\ last.op = "get_led_output"
    /\ now = 200
    /\ pattern_transition.phase = "fade_in"
    /\ pattern_transition.from_effect_id = 1
    /\ pattern_transition.to_effect_id = 2
    /\ frame_out = << <<0, 50, 0>>, <<0, 50, 0>> >>

\* C10: between the tick's snapshot and the end of its get_led_output no
\* mutation by a control handler takes effect: a handler a worker runs there
\* leaves the scenes, the selections, the transition, the brightness, the
\* speed and the dissolve time as they are.
C10_TickIsCriticalSection ==
    [][ (pc \in {"update", "output"} /\ pc' = pc /\ Len(pending') < Len(pending))
        => UNCHANGED <<scenes, active_scene_id, pattern_transition,
                       master_brightness, speed_percent, dissolve_time>> ]_vars

\* C11: at most one thread at a time is inside an operation of SceneManager
\* that reads or changes scene state.
C11_MutualExclusion ==
    Cardinality({t \in Threads : locks.stack[t] # << >>}) <= 1

\* C11 witness: the frame loop is inside get_led_output while a worker's
\* handler is about to call an operation of SceneManager.
C11_Witness ==
    /\ locks.stack[LoopThread] = <<"get_led_output">>
    /\ \E w \in Workers : locks.at[w] = "handler" /\ locks.stack[w] = << >>

\* this step is a direct call of a SceneManager operation
DirectCall(names) == calls' # calls /\ last'.op \in names

\* C12: with transitions disabled, set_effect(e) for an effect e of the active
\* scene (set_palette(p) for a palette p of it) returns success, and right
\* after it the scene's current_effect_id is e (current_palette is p) and no
\* transition is active.
C12_ImmediateCommit ==
    [][ (~enabled /\ HasActive /\ DirectCall({"set_effect", "set_palette"}))
        => LET target == last'.params[1]
               after == scenes'[active_scene_id]
           IN  IF last'.op = "set_effect"
               THEN target \in DOMAIN ActiveScene.effects
                    => /\ last'.ret
                       /\ after.current_effect_id = target
                       /\ ~pattern_transition'.is_active
               ELSE target \in DOMAIN ActiveScene.palettes
                    => /\ last'.ret
                       /\ after.current_palette = target
                       /\ ~pattern_transition'.is_active ]_vars

\* C13: switch_scene with an id that is not loaded, set_effect with an effect
\* the active scene lacks, set_palette and update_palette_color with a palette
\* the active scene lacks return failure and leave the scenes, the active
\* scene id and the transition record as they are.
C13_UnknownTargetRejected ==
    [][ DirectCall({"switch_scene", "set_effect", "set_palette",
                    "update_palette_color"})
        => LET op == last'.op
               target == last'.params[1]
               unknown ==
                   IF op = "switch_scene" THEN target \notin DOMAIN scenes
                   ELSE IF op = "set_effect"
                   THEN HasActive /\ target \notin DOMAIN ActiveScene.effects
                   ELSE HasActive /\ target \notin DOMAIN ActiveScene.palettes
           IN  unknown => (~last'.ret /\ UNCHANGED smVars) ]_vars

\* C13 witness: with transitions enabled, set_effect with an effect the active
\* scene does not have was refused.
C13_Witness ==
    /\ enabled
    /\ last.op = "set_effect"
    /\ ~last.ret
    /\ HasActive
    /\ active_scene_id # 0
    /\ last.params[1] \notin DOMAIN ActiveScene.effects

\* C14: set_effect_palette on a loaded scene with an effect id and a palette
\* id either finds both and sets both selectors, or changes neither selector
\* and reports the request as rejected.
C14_SwitchEffectAllOrNothing ==
    [][ (DirectCall({"set_effect_palette"}) /\ last'.params[1] \in DOMAIN scenes)
        => LET before == scenes[last'.params[1]]
               after == scenes'[last'.params[1]]
               e == last'.params[2]
               p == last'.params[3]
           IN  IF e \in DOMAIN before.effects /\ p \in DOMAIN before.palettes
               THEN /\ after.current_effect_id = e
                    /\ after.current_palette = p
               ELSE /\ after.current_effect_id = before.current_effect_id
                    /\ after.current_palette = before.current_palette
                    /\ ~last'.ret ]_vars

\* C15: once a scene is loaded a scene is active, and it is the one the
\* operations use: outside a transition get_led_output returns the composite
\* of the active scene's current effect, whatever the scene's id (0 too).
C15_FirstLoadedIsActive ==
    /\ DOMAIN scenes # {} => HasActive
    /\ (last.op = "get_led_output" /\ HasActive /\ ~pattern_transition.is_active)
       => frame_out = Scene_get_led_output(ActiveScene)

C17_MalformedPaletteAddressRejected ==
    [][ (/\ last'.op = "receive"
         /\ message_count' # message_count
         /\ last'.params[1] = "/palette"
         /\ ~(/\ last'.params[2] \in {"A", "B", "C", "D", "E"}
              /\ Len(last'.params[3]) = 1
              /\ last'.params[3][1] \in 0..5))
        => (pending' = pending /\ scenes' = scenes) ]_vars

\* C18: a message to an unregistered address, or to a registered address
\* with no argument, with more than one argument, or with an argument that is
\* not an integer where an integer is required, is discarded: neither its
\* arrival nor its handler changes an engine field or the SceneManager.
Malformed(handler, args) ==
    \/ Len(args) = 0
    \/ Len(args) > 1
    \/ handler \in IntHandlers /\ args[1].t # "i"

C18_MalformedDiscarded ==
    [][ (\/ last'.op = "receive" /\ ~last'.ret
         \/ /\ Len(pending') < Len(pending)
            /\ Malformed(last'.op, last'.params))
        => UNCHANGED <<engineVars, smVars>> ]_vars

\* C19: whatever /master_brightness, /set_speed_percent and
\* /set_dissolve_time messages with integer arguments arrive and however
\* their handlers interleave, master_brightness stays in 0..255, speed_percent
\* in 0..200 and dissolve_time >= 0; each handler stores its argument unchanged
\* when it is in range and the nearest bound when it is not, and leaves the
\* other two fields alone.
Nearest(lo, hi, a) == IF a < lo THEN lo ELSE IF a > hi THEN hi ELSE a

C19_FieldsClamped ==
    /\ [](/\ master_brightness \in 0..255
          /\ speed_percent \in 0..200
          /\ dissolve_time >= 0)
    /\ [][ Len(pending') < Len(pending) =>
           LET a == last'.params[1].n
           IN  CASE last'.op = "master_brightness" ->
                      /\ master_brightness' = Nearest(0, 255, a)
                      /\ UNCHANGED <<speed_percent, dissolve_time>>
                 [] last'.op = "set_speed_percent" ->
                      /\ speed_percent' = Nearest(0, 200, a)
                      /\ UNCHANGED <<master_brightness, dissolve_time>>
                 [] OTHER ->
                      /\ dissolve_time' = IF a < 0 THEN 0 ELSE a
                      /\ UNCHANGED <<master_brightness, speed_percent>> ]_vars

\* a speed above the range was stored as 200 while a brightness below the
\* range had been stored as 0
C19_Witness ==
    /\ last.op = "set_speed_percent"
    /\ last.params[1].n = 201
    /\ speed_percent = 200
    /\ master_brightness = 0

\* C20: while speed_percent is 0, a tick of the frame loop leaves the
\* current_position of every segment unchanged, for every segment whose
\* position lies in its move_range [lo, hi], endpoints included, reflecting
\* or wrapping, whatever its move_speed.
InMoveRange(seg) ==
    /\ seg.move_range[1] * PosUnit <= seg.current_position
    /\ seg.current_position <= seg.move_range[2] * PosUnit

C20_ZeroSpeedFreezes ==
    [][ (/\ pc = "update" /\ pc' = "output"
         /\ speed_percent = 0 /\ snap.speed_percent = 0)
        => \A id \in DOMAIN scenes : \A e \in DOMAIN scenes[id].effects :
             \A i \in DOMAIN scenes[id].effects[e].segments :
                InMoveRange(scenes[id].effects[e].segments[i]) =>
                    scenes'[id].effects[e].segments[i].current_position =
                    scenes[id].effects[e].segments[i].current_position ]_vars

\* the segments of the loaded scenes, after the step
SegmentsAfter ==
    UNION { UNION { { scenes'[id].effects[e].segments[i] :
                        i \in DOMAIN scenes'[id].effects[e].segments } :
                    e \in DOMAIN scenes'[id].effects } :
            id \in DOMAIN scenes' }

\* C21: after every update_position, in any sequence of non-negative
\* delta-times, a reflecting segment with a well-ordered move_range [lo, hi]
\* has lo <= current_position <= hi, whatever its move_speed (0 included) and
\* initial_position.
C21_ReflectStaysInRange ==
    [][ DirectCall({"update_animation"}) =>
        \A seg \in SegmentsAfter :
            (seg.is_edge_reflect /\ seg.move_range[1] <= seg.move_range[2]) =>
                /\ seg.move_range[1] * PosUnit <= seg.current_position
                /\ seg.current_position <= seg.move_range[2] * PosUnit ]_vars

\* C22: after every update_position, in any sequence of delta-times, a
\* wrapping segment with R = hi - lo > 0 has lo <= current_position < lo + R,
\* whatever its move_speed (0 included) and initial_position.
C22_WrapStaysInRange ==
    [][ DirectCall({"update_animation"}) =>
        \A seg \in SegmentsAfter :
            (~seg.is_edge_reflect /\ seg.move_range[2] > seg.move_range[1]) =>
                /\ seg.move_range[1] * PosUnit <= seg.current_position
                /\ seg.current_position < seg.move_range[2] * PosUnit ]_vars

\* C30: every scene obtained by Scene.from_dict and advanced by any sequence
\* of update_animation ticks equals Scene.from_dict of its own to_dict: the
\* round trip preserves every segment's current_position (a position of
\* exactly 0 included) and move_speed.
C30_RoundTrip ==
    \A id \in DOMAIN scenes :
        Scene_from_dict(Scene_to_dict(scenes[id])) = scenes[id]

\* C28: no exception of a control handler, or of its submission to the
\* worker pool, reaches the dispatch loop.  Whatever the outcome, the wrapper
\* returns with the message counted; a submission that raises (a palette
\* message is submitted only when well-formed) and a handler call that
\* raises each add 1 to error_count and change nothing else of the engine; and afterwards messages are still received and queued tasks
\* still run.
C28_ExceptionsContained ==
    /\ [][ /\ (last'.op = "receive" /\ message_count' # message_count) =>
               /\ message_count' = message_count + 1
               /\ IF executor_open
                  THEN /\ error_count' = error_count
                       /\ Len(pending') \in {Len(pending), Len(pending) + 1}
                  ELSE /\ pending' = pending
                       /\ IF last'.params[1] = "/palette"
                          THEN error_count' \in {error_count, error_count + 1}
                          ELSE error_count' = error_count + 1
           /\ \A i \in 1..Len(pending) :
                (/\ pending' = Remove(pending, i)
                 /\ ~CallBinds(pending[i].handler, Len(pending[i].args))) =>
                    /\ error_count' = error_count + 1
                    /\ UNCHANGED <<smVars, engineVars, message_count>> ]_vars
    /\ [](message_count < MaxMessages =>
            /\ ENABLED ReceiveMasterBrightness
            /\ ENABLED ReceivePaletteFrom(PaletteAddresses))
    /\ [](pending # << >> => ENABLED (RunPaletteColor \/ RunMasterBrightness))

\* a handler call has raised and been counted, and the next message has
\* been received and queued
C28_Witness ==
    /\ error_count = 1
    /\ executor_open
    /\ message_count = 2
    /\ last.op = "receive"
    /\ Len(pending) = 1
    /\ pending[1].handler = "master_brightness"

\* the loop starts no iteration once running is false
NoNewIteration == [][ ~running => ~(pc = "sleep" /\ pc' = "update") ]_vars
\* the loop terminates once running is false
LoopTerminates == ~running ~> pc = "done"
\* stop returns, and running is false from then on
StopReturns == (stop_pc = "join" ~> stop_pc = "done") /\ [](stop_pc = "done" => ~running)
\* no send_message once stop has returned
NoFrameAfterStop == [][ stop_pc = "done" => last'.op # "send_message" ]_vars

\* C29: after stop() sets running to false the frame loop completes at most
\* the iteration in progress, starts no new iteration and terminates; stop()
\* returns after its bounded join, and once it has returned running is false
\* and no further frame is sent to any destination.
C29_StopQuiesces ==
    /\ NoNewIteration
    /\ LoopTerminates
    /\ StopReturns
    /\ NoFrameAfterStop

\* C31: the blob sent to a destination for a non-empty frame of n LEDs has
\* exactly 4*n octets, and octets 4k, 4k+1, 4k+2, 4k+3 (from 0) are R, G, B
\* of LED k, in index order, and 0.
C31_WireEncoding ==
    [][ (last'.op = "send_message" /\ led_output' # led_output) =>
        LET blob == last'.params[2]
            n == Len(sent)
        IN  /\ n > 0
            /\ Len(blob) = 4 * n
            /\ \A k \in 0..(n - 1) :
                 /\ blob[4 * k + 1] = sent[k + 1][1]
                 /\ blob[4 * k + 2] = sent[k + 1][2]
                 /\ blob[4 * k + 3] = sent[k + 1][3]
                 /\ blob[4 * k + 4] = 0 ]_vars

\* a blob of a lit frame scaled by master brightness has been delivered
C31_Witness ==
    /\ last.op = "send_message"
    /\ last.ret
    /\ snap.master_brightness = 128
    /\ \E j \in DOMAIN last.params[2] : last.params[2][j] \notin {0, 255}
    /\ \E i, j \in DOMAIN sent : sent[i] # sent[j]

\* the place of a phase in the order FADE_OUT, WAITING, FADE_IN, COMPLETED
PhaseRank(phase) ==
    CASE phase = "fade_out" -> 0
      [] phase = "waiting" -> 1
      [] phase = "fade_in" -> 2
      [] OTHER -> 3

C33_LoopSurvivesStart == pc = "done" => stop_pc # "idle"

\* C34: a transition requested while scene 1 was active writes only scene
\* 1's selectors: whatever scene switch happens while it is active, neither
\* its rendering (get_led_output) nor its commit (update_animation) changes
\* current_effect_id or current_palette of another scene.
C34_TransitionWritesItsScene ==
    [][ last'.op \in {"update_animation", "get_led_output"} =>
        \A id \in DOMAIN scenes \ {1} :
            /\ scenes'[id].current_effect_id = scenes[id].current_effect_id
            /\ scenes'[id].current_palette = scenes[id].current_palette ]_vars

\* C35: with transitions enabled, an accepted set_effect(2) followed only by
\* set_palette requests, at whatever phase they arrive, leads, once the
\* requests have stopped and the ticks continue, to the active scene's
\* current_effect_id being 2 with the transition over; and an accepted
\* set_palette("B") followed only by set_effect requests leads to
\* current_palette "B".
C35_RequestsNotLost ==
    /\ (/\ enabled /\ last.op = "set_effect" /\ last.ret
        /\ Runnable("change_effect") = {}
        /\ message_count = MaxMessages \/ now > RequestsUntil)
       ~> (/\ ~pattern_transition.is_active
           /\ HasActive
           /\ ActiveScene.current_effect_id = 2)
    /\ (/\ enabled /\ last.op = "set_palette" /\ last.ret
        /\ Runnable("change_palette") = {}
        /\ message_count = MaxMessages \/ now > RequestsUntil)
       ~> (/\ ~pattern_transition.is_active
           /\ HasActive
           /\ ActiveScene.current_palette = "B")

\* C36: no thread takes the engine's lock while it holds SceneManager's (so
\* a thread that holds both took the engine's first, and the frame loop asks
\* for the engine's lock holding nothing); a thread that waits at a lock
\* waits for another thread, which is not waiting or waits for a third that
\* is not; and every thread that is not waiting has a step it can take.
C36_DeadlockFreedom ==
    /\ [][ \A t \in Threads :
              (locks.engine.owner # t /\ locks'.engine.owner = t)
                  => locks.sm.owner # t ]_vars
    /\ [](\A t \in Threads :
             BlockedOn(t) # None =>
                 LET o == BlockedOn(t)
                 IN  /\ o # t
                     /\ \/ BlockedOn(o) = None
                        \/ /\ BlockedOn(o) \notin {t, o}
                           /\ BlockedOn(BlockedOn(o)) = None)
    /\ [](\A t \in Threads : BlockedOn(t) = None => ENABLED ThreadStep(t))

\* C36 witness: a worker holds the engine's lock and waits at SceneManager's,
\* held by the frame loop inside get_led_output, and the callers of
\* get_stats wait for the worker at the engine's lock.
C36_Witness ==
    \E w \in Workers :
        /\ locks.engine.owner = w
        /\ locks.want[w] = "set_effect"
        /\ BlockedOn(w) = LoopThread
        /\ locks.stack[LoopThread] = <<"get_led_output">>
        /\ \A t \in StatsCallers : BlockedOn(t) = w

C38_ReflectionStep ==
    /\ [][ DirectCall({"update_animation"}) =>
            \A id \in DOMAIN scenes : \A e \in DOMAIN scenes[id].effects :
                \A i \in DOMAIN scenes[id].effects[e].segments :
                    LET seg == scenes[id].effects[e].segments[i]
                        after == scenes'[id].effects[e].segments[i]
                        moved == seg.current_position +
                                 TruncDiv(seg.move_speed * last'.params[1] * PosUnit,
                                          1000)
                        lo == seg.move_range[1] * PosUnit
                        hi == seg.move_range[2] * PosUnit
                    IN  /\ Abs(after.move_speed) = Abs(seg.move_speed)
                        /\ (seg.is_edge_reflect /\ lo < hi /\ seg.move_speed # 0) =>
                              /\ moved >= hi =>
                                    /\ after.current_position = hi
                                    /\ after.move_speed = -Abs(seg.move_speed)
                              /\ moved <= lo =>
                                    /\ after.current_position = lo
                                    /\ after.move_speed = Abs(seg.move_speed) ]_vars
    /\ []((/\ calls = 2
           /\ last.op = "update_animation"
           /\ last.params = <<950>>
           /\ HasActive)
          => LET seg == ActiveScene.effects[1].segments[1]
             IN  (/\ seg.initial_position = 0
                  /\ seg.move_range = <<0, 9>>
                  /\ Abs(seg.move_speed) = 10)
                 => seg.current_position = 9 * PosUnit /\ seg.move_speed = -10)

\* C38 witness: the segment of speed 10 and range [0, 9] that started at 0
\* has been updated by 0.95 s twice and is back at 0 with speed +10, having
\* turned at 9.
C38_Witness ==
    /\ calls = 3
    /\ last.op = "update_animation"
    /\ last.params = <<950>>
    /\ HasActive
    /\ LET seg == ActiveScene.effects[1].segments[1]
       IN  /\ seg.initial_position = 0
           /\ seg.move_range = <<0, 9>>
           /\ seg.move_speed = 10
           /\ seg.current_position = 0

\* the segment built from the lists of the load_scene call just made
BuiltSegment == scenes[4].effects[1].segments[1]

\* C39: the number of LEDs get_led_colors returns for a segment built from
\* color, length and transparency lists, against the 6-entry palette A, is
\* the sum of max(0, length[i]) over the given length list plus max(0,
\* number of given colors - number of given lengths).
C39_LedCount ==
    last.op = "load_scene" =>
        LET d == last.params[1]
        IN  Len(get_led_colors(BuiltSegment, PaletteA)) =
                SumLengths(d.length) + Max(0, Len(d.color) - Len(d.length))

\* the same count with an empty color list counted as the one color [0] that
\* __post_init__ puts in its place: what the built segments satisfy
LedCountOfBuilt ==
    last.op = "load_scene" =>
        LET d == last.params[1]
            colors == IF d.color = << >> THEN 1 ELSE Len(d.color)
        IN  Len(get_led_colors(BuiltSegment, PaletteA)) =
                SumLengths(d.length) + Max(0, colors - Len(d.length))

\* a segment built from two colors and the one part length -1 renders one
\* LED, the one of the color without a length
LedCountCase ==
    /\ last.op = "load_scene"
    /\ last.params[1].color = <<0, 7>>
    /\ last.params[1].length = <<-1>>
    /\ Len(get_led_colors(BuiltSegment, PaletteA)) = 1

\* C40: a segment with fade on, dimmer_time [0, 100, 0] and one part of 5
\* LEDs of solid white renders 5 LEDs whose channels are 0, 127, 255, 127, 0,
\* each within 1: the first LED at the start of the curve, the last at its
\* end.
C40_FadeCurve ==
    (/\ last.op = "load_scene"
     /\ last.params[1].dimmer_time = <<0, 100, 0>>
     /\ last.params[1].color = <<3>>
     /\ last.params[1].length = <<5>>)
    => LET colors == get_led_colors(BuiltSegment, PaletteA)
           expected == <<0, 127, 255, 127, 0>>
       IN  /\ Len(colors) = 5
           /\ \A i \in 1..5 : \A c \in 1..3 :
                  Abs(colors[i][c] - expected[i]) <= 1

\* C27: in one send_led_data call a failed send to a destination does not
\* prevent the attempt to any other: when the call returns, every destination
\* with a client has exactly one of its send_count and error_count
\* incremented by 1, every destination without a client is as it was, and
\* the frame loop is at its sleep, no exception having reached it.
C27_DestinationIsolation ==
    [][ (pc = "send" /\ pc' # "send") =>
        /\ pc' = "sleep"
        /\ Len(led_output'.clients) = Len(send.before)
        /\ \A k \in DOMAIN send.before :
             LET b == send.before[k]
                 a == led_output'.clients[k]
             IN  IF b.client
                 THEN \/ /\ a.send_count = b.send_count + 1
                         /\ a.error_count = b.error_count
                      \/ /\ a.send_count = b.send_count
                         /\ a.error_count = b.error_count + 1
                 ELSE a = b ]_vars

\* a call has returned in which the send to the first destination failed,
\* the second has no client and the third was sent to
C27_Witness ==
    /\ pc = "sleep"
    /\ last.op = "next_client"
    /\ Len(led_output.clients) = 3
    /\ led_output.clients[1] = [client |-> TRUE, send_count |-> 0, error_count |-> 1]
    /\ led_output.clients[2] = Client(FALSE)
    /\ led_output.clients[3] = [client |-> TRUE, send_count |-> 1, error_count |-> 0]

ChannelsInRange(frame) ==
    \A i \in DOMAIN frame : \A j \in 1..3 : frame[i][j] \in 0..255

\* C23: every channel of every frame the engine produces (the scene
\* composite, the transition-scaled frame, the frame scaled by master
\* brightness) is an integer in 0..255, whatever the palettes hold (channels
\* outside 0..255 from a direct update_palette_color or from the scene file),
\* whatever the transparency and dimmer values and the transition progress.
C23_ChannelsInRange == ChannelsInRange(frame_out) /\ ChannelsInRange(sent)

\* a frame of a fade, halfway, scaled by master brightness 128, lit, of a
\* scene whose palette holds 300 from the file and from a direct write
C23_Witness ==
    /\ last.op = "get_led_output"
    /\ pattern_transition.is_active
    /\ pattern_transition.phase \in {"fade_in", "fade_out"}
    /\ pattern_transition.progress = Frac(1, 2)
    /\ snap.master_brightness = 128
    /\ \E i \in DOMAIN sent : sent[i] # Black
    /\ active_scene_id = 5
    /\ scenes[5].palettes["A"][1][1] = 300
    /\ scenes[5].palettes["A"][3][1] = 300

\* C25: the frame handed to the output sink has every channel equal to
\* floor(channel * master_brightness / 255) of the composited frame.
C25_BrightnessFloor ==
    [][ (pc = "output" /\ pc' = "sleep") =>
        sent' = [i \in 1..Len(frame_out') |->
                    << (frame_out'[i][1] * snap.master_brightness) \div 255,
                       (frame_out'[i][2] * snap.master_brightness) \div 255,
                       (frame_out'[i][3] * snap.master_brightness) \div 255 >>] ]_vars

\* C26: after a successful update_palette_color(palette_id, color_id, rgb),
\* whatever integers rgb holds, the stored palette entry has every channel in
\* 0..255.
C26_PaletteWriteClamped ==
    [][ (DirectCall({"update_palette_color"}) /\ last'.ret) =>
        \A j \in 1..3 :
            scenes'[active_scene_id'].palettes[last'.params[1]][last'.params[2] + 1][j]
                \in 0..255 ]_vars

SetMax(S) == CHOOSE x \in S : \A y \in S : y <= x

\* the frame of n LEDs whose every channel is the maximum over the segments
\* of segs covering the LED, 0 when none does
MaxFrame(segs, palette, n) ==
    [k \in 1..n |->
        LET covering ==
                { i \in DOMAIN segs :
                    LET start == TruncDiv(segs[i].current_position, PosUnit)
                    IN  /\ start <= k - 1
                        /\ k - 1 < start + Len(get_led_colors(segs[i], palette)) }
            channel(j) ==
                SetMax({0} \cup
                    { get_led_colors(segs[i], palette)
                        [k - TruncDiv(segs[i].current_position, PosUnit)][j] :
                      i \in covering })
        IN  << channel(1), channel(2), channel(3) >>]

\* C24: Effect.get_led_output does not depend on the order of the segments:
\* whatever the order, each channel of each LED is the maximum over the
\* segments covering that LED, and what falls outside [0, led_count) is
\* dropped.
C24_OrderIndependent ==
    (last.op = "get_led_output" /\ active_scene_id = 6) =>
        LET effect == scenes[6].effects[1]
            Range(q) == { q[i] : i \in DOMAIN q }
            reordered == { [i \in 1..Len(seq) |-> OrderSegs[seq[i]]] :
                           seq \in { q \in OrderSeqs :
                               { OrderSegs[n] : n \in Range(q) } =
                               Range(effect.segments) } }
        IN  /\ frame_out = MaxFrame(effect.segments, PaletteOrder, effect.led_count)
            /\ \A segs \in reordered :
                  Effect_get_led_output([effect EXCEPT !.segments = segs],
                                        PaletteOrder) = frame_out

\* red on LEDs 0-1 and green on LEDs 1-2, green composited first
C24_Witness ==
    /\ last.op = "get_led_output"
    /\ active_scene_id = 6
    /\ scenes[6].effects[1].segments = << OrderSegs[2], OrderSegs[1] >>
    /\ frame_out = << <<255, 0, 0>>, <<255, 128, 0>>, <<0, 128, 0>> >>

=============================================================================
